---- MODULE Spec2Model ----
(***************************************************************************)
(* Model of the audio chunking / sequential transcription pipeline of      *)
(* transcribeSummarize.js: splitAudio, transcribeChunk, summarizeText,     *)
(* cleanupTempDir and main.                                                *)
(*                                                                         *)
(* Time offsets (startOffset, endOffset, totalDuration) are counted in     *)
(* half seconds so that a source whose duration is not a whole number of   *)
(* seconds can be expressed; chunk lengths (chunkLengthSeconds,            *)
(* currentChunkLength) are whole seconds as in the code, where they are    *)
(* produced by 10 * 60 and Math.floor.                                     *)
(* Text is a sequence of character codes.                                  *)
(***************************************************************************)
EXTENDS Integers, Sequences, FiniteSets, TLC

\* ------------------------------------------------------------------ bounds
\* longest "short" source, in seconds: short sources may produce any
\* pattern of oversize slices
MaxShortSeconds == 5
\* number of oversize slices the long (25 minute) source may produce
MaxOversizeLong == 1
\* number of files another actor may drop into the scratch directory
MaxStray == 1

\* --------------------------------------------------------------- constants
CHUNK_LENGTH_SECONDS == 10 * 60
MAX_FILE_SIZE_MB == 25
MAX_FILE_SIZE_BYTES == (MAX_FILE_SIZE_MB - 1) * 1024 * 1024
\* safetyFactor = 0.9, as a fraction SafetyNum / SafetyDen
SafetyNum == 9
SafetyDen == 10
\* the line break of the chunk separator "\n\n"
NL == 10
TEMP_DIR_PREFIX == "audio_chunks_"

\* ----------------------------------------------------------------- helpers
Sec(n) == 2 * n

Min(a, b) == IF a <= b THEN a ELSE b

\* the value null of the code
NULL == <<-1>>

\* String.prototype.trim's white space, as character codes
IsWhiteSpace(c) == c \in {9, 10, 11, 12, 13, 32}

RECURSIVE TrimStart(_)
TrimStart(s) ==
    IF s = <<>> THEN <<>>
    ELSE IF IsWhiteSpace(Head(s)) THEN TrimStart(Tail(s)) ELSE s

RECURSIVE TrimEnd(_)
TrimEnd(s) ==
    IF s = <<>> THEN <<>>
    ELSE IF IsWhiteSpace(s[Len(s)]) THEN TrimEnd(SubSeq(s, 1, Len(s) - 1)) ELSE s

Trim(s) == TrimEnd(TrimStart(s))

\* names of the files of the scratch directory
ChunkName(k) == <<"temp_chunk", k>>
StrayNames == {<<"stray", k>> : k \in 1..MaxStray}

\* the sizes a slice may come out with
SliceSizes == {MAX_FILE_SIZE_BYTES - 1, MAX_FILE_SIZE_BYTES, MAX_FILE_SIZE_BYTES + 1}

\* the durations of the sources, in half seconds
Durations == {0, 1, Sec(2) + 1, Sec(MaxShortSeconds), Sec(1200), Sec(1500)}

\* the texts the transcription backend may recognise in chunk k
TextsFor(k) == {<<>>, <<97 + k>>}

VARIABLES
    \* ---- inputs of the run
    fileExists,          \* fs.existsSync(audioFilePath)
    hasExtension,        \* path.extname(filePath) is not empty
    totalDuration,       \* duration of the source, half seconds
    options,             \* [skipSummary, keepTempFiles, delayBetweenChunks]
    \* ---- main
    pc,
    tempDir,             \* base name of the scratch directory, NoDir for ''
    chunkResult,         \* chunkResult.chunks
    idx,                 \* loop index of the transcription loop
    fullTranscript,
    successfulTranscriptions,
    result,              \* the value main returns
    exitCode,
    \* ---- splitAudio
    chunks, startOffset, i, currentChunkLength, chunkExported, chunkFailed,
    \* ---- file system
    dirExists, dirFiles, outTranscript, outSummary,
    \* ---- history
    abortCause,          \* what threw or made the split return no chunks: "mkdtemp",
                         \* "probe", "extension", "ffmpeg", "stat", "floor"; else "none"
    spans,               \* span and size of every chunk pushed to chunks
    oversizeLeft,        \* oversize slices the long source may still produce
    oversizeSeen,        \* some slice of this run came out oversize
    backend,             \* what the backend did in the transcribeChunk call that
                         \* has just returned, NoOutcome otherwise
    outstanding,         \* transcribeChunk calls that have not returned
    issued,              \* indices of the transcribeChunk calls, in order
    results,             \* value returned by each transcribeChunk call
    cleanupCalls,
    cleanupDeleted,      \* files unlinked by cleanupTempDir
    cleanupGiven,        \* chunk list handed to cleanupTempDir
    unlinkThrew,         \* files whose fs.unlinkSync threw inside cleanupTempDir
    readdirThrew,        \* fs.readdirSync threw inside cleanupTempDir
    envFault,            \* a file system call failed on an existing file, or
                         \* a stray file was dropped
    writeAttempts,       \* fs.writeFileSync calls for the transcript
    summarizeCalls,
    delays,
    summary,             \* the value summarizeText returned to main
    summaryWrites,       \* fs.writeFileSync calls for the summary
    loggedFailed,        \* the failed count of the log line 469, -1 before it
    \* ---- app.js
    appPc,               \* position in app.js, "idle" when app.js is not running
    caller,              \* who called processAudioFile: "batch" or "single"
    appOptions,          \* [generateFocusedSummary, continueOnError, useOutputDir]
    audioFiles,          \* audioFiles.length in processAllAudioFiles
    fileIdx,             \* loop index i of processAllAudioFiles
    successCount,
    audioDir,            \* path.dirname of the file being processed
    appFiles,            \* what <dir>/<base>_<kind>.txt holds, for the current base
    skipTranscription,
    childRun,            \* how the transcribeSummarize.js child of this call ran
    focusRun,            \* how the summarize_focus.js child of this call ran
    retval,              \* what processAudioFile returned, "none" before it
    singleKind,          \* what the path given to processSingleFile is
    singleResult,        \* how processSingleFile ended, "none" before it
    pending,             \* files browseOutputFiles has still to group
    fileGroups           \* fileGroups as a set of <<baseName, file name>>

mainVars == <<pc, tempDir, chunkResult, idx, fullTranscript, successfulTranscriptions, result, exitCode>>
inputVars == <<fileExists, hasExtension, totalDuration, options>>
splitVars == <<chunks, startOffset, i, currentChunkLength, chunkExported, chunkFailed>>
fsVars == <<dirExists, dirFiles, outTranscript, outSummary>>
histVars == <<summary, summaryWrites, loggedFailed, abortCause, spans, oversizeLeft, oversizeSeen, backend, outstanding, issued, results, cleanupCalls, cleanupDeleted, cleanupGiven, unlinkThrew, readdirThrew, envFault, writeAttempts, summarizeCalls, delays>>
appVars == <<appPc, caller, appOptions, audioFiles, fileIdx, successCount, audioDir, appFiles,
             skipTranscription, childRun, focusRun, retval, singleKind, singleResult,
             pending, fileGroups>>
vars == <<inputVars, appVars, mainVars, splitVars, fsVars, histVars>>

\* base names of directories, as <<prefix, rest>>
NoDir == <<"", "">>
\* fs.mkdtempSync(path.join(os.tmpdir(), TEMP_DIR_PREFIX)), lines 86-95
MadeTempDir == <<TEMP_DIR_PREFIX, "XXXXXX">>
\* line 376: path.basename(tempDir).startsWith(TEMP_DIR_PREFIX)
StartsWithPrefix(dir) == dir[1] = TEMP_DIR_PREFIX

NoResult == [returned |-> FALSE, error |-> FALSE, transcriptPath |-> FALSE, summaryPath |-> FALSE]

\* no transcribeChunk call has just returned
NoOutcome == [threw |-> FALSE, status |-> "none", text |-> <<>>]

\* contents of files that exist before the run
OldTranscript == <<111>>
OldSummary == <<111, 115>>

\* app.js, lines 17-18
AUDIO_INPUT_DIR == "audio-input"
OUTPUT_DIR == "output"
Dirs == {AUDIO_INPUT_DIR, OUTPUT_DIR}
\* the files written for one audio base name: <base>_<kind>.txt
Kinds == {"transcript", "summary", "focused_summary"}
NoFiles == [p \in Dirs \X Kinds |-> "none"]

\* app.js is not running
AppIdle ==
    /\ appPc = "idle"
    /\ caller = "none"
    /\ appOptions = [generateFocusedSummary |-> FALSE, continueOnError |-> FALSE,
                     useOutputDir |-> FALSE]
    /\ audioFiles = 0
    /\ fileIdx = 0
    /\ successCount = 0
    /\ audioDir = AUDIO_INPUT_DIR
    /\ appFiles = NoFiles
    /\ skipTranscription = FALSE
    /\ childRun = "none"
    /\ focusRun = "none"
    /\ retval = "none"
    /\ singleKind = "none"
    /\ singleResult = "none"
    /\ pending = {}
    /\ fileGroups = {}

Init ==
    /\ AppIdle
    /\ fileExists \in BOOLEAN
    /\ hasExtension \in BOOLEAN
    /\ totalDuration \in Durations
    /\ options \in [skipSummary : BOOLEAN, keepTempFiles : BOOLEAN, delayBetweenChunks : BOOLEAN]
    /\ pc = "main"
    /\ tempDir = NoDir
    /\ chunkResult = <<>>
    /\ idx = 0
    /\ fullTranscript = <<>>
    /\ successfulTranscriptions = 0
    /\ result = NoResult
    /\ exitCode = -1
    /\ chunks = <<>>
    /\ startOffset = 0
    /\ i = 0
    /\ currentChunkLength = 0
    /\ chunkExported = FALSE
    /\ chunkFailed = FALSE
    /\ dirExists = FALSE
    /\ dirFiles = {}
    /\ outTranscript \in {NULL, OldTranscript}
    /\ outSummary = NULL
    /\ abortCause = "none"
    /\ spans = <<>>
    /\ oversizeLeft = MaxOversizeLong
    /\ oversizeSeen = FALSE
    /\ backend = NoOutcome
    /\ outstanding = {}
    /\ issued = <<>>
    /\ results = <<>>
    /\ cleanupCalls = 0
    /\ cleanupDeleted = {}
    /\ cleanupGiven = <<>>
    /\ unlinkThrew = {}
    /\ readdirThrew = FALSE
    /\ envFault = FALSE
    /\ writeAttempts = 0
    /\ summarizeCalls = 0
    /\ delays = 0
    /\ summary = NULL
    /\ summaryWrites = 0
    /\ loggedFailed = -1

\* ---------------------------------------------------------- file system
\* cleanupTempDir without the check of line 385: every file is unlinked
cleanupTempDirEveryFile(dir, exists, files, generatedChunks, unlinkFails, ioFault) ==
    IF ~exists \/ ~StartsWithPrefix(dir) \/ ioFault = "readdir"
      THEN [exists |-> exists, files |-> files, deleted |-> {}, failed |-> {},
            listingFailed |-> exists /\ StartsWithPrefix(dir),
            errorCount |-> IF exists /\ StartsWithPrefix(dir) THEN 1 ELSE 0,
            threw |-> FALSE]
      ELSE LET deleted == files \ unlinkFails
               rmdirThrows == files \ deleted # {} \/ ioFault = "rmdir"
           IN  [exists |-> rmdirThrows, files |-> files \ deleted, deleted |-> deleted,
                failed |-> files \cap unlinkFails, listingFailed |-> FALSE,
                errorCount |-> Cardinality(files \cap unlinkFails)
                               + (IF rmdirThrows THEN 1 ELSE 0),
                threw |-> FALSE]

\* cleanupTempDir whose catch block throws the error again
cleanupTempDirRethrow(dir, exists, files, generatedChunks, unlinkFails, ioFault) ==
    LET absoluteChunkPaths == {generatedChunks[k] : k \in 1..Len(generatedChunks)}
        listed == {f \in files : f \in absoluteChunkPaths}
        deleted == listed \ unlinkFails
        rmdirThrows == files \ deleted # {} \/ ioFault = "rmdir"
    IN  IF ~exists \/ ~StartsWithPrefix(dir)
          THEN [exists |-> exists, files |-> files, deleted |-> {}, failed |-> {},
                listingFailed |-> FALSE, errorCount |-> 0, threw |-> FALSE]
        ELSE IF ioFault = "readdir"
          THEN [exists |-> exists, files |-> files, deleted |-> {}, failed |-> {},
                listingFailed |-> TRUE, errorCount |-> 1, threw |-> TRUE]
        ELSE [exists |-> rmdirThrows, files |-> files \ deleted, deleted |-> deleted,
              failed |-> listed \cap unlinkFails, listingFailed |-> FALSE,
              errorCount |-> Cardinality(listed \cap unlinkFails)
                             + (IF rmdirThrows THEN 1 ELSE 0),
              threw |-> rmdirThrows]

\* cleanupTempDir without the try block around fs.unlinkSync: a failing
\* unlink ends the loop, here before any file was deleted
cleanupTempDirStopAtFailure(dir, exists, files, generatedChunks, unlinkFails, ioFault) ==
    LET absoluteChunkPaths == {generatedChunks[k] : k \in 1..Len(generatedChunks)}
        listed == {f \in files : f \in absoluteChunkPaths}
        stopped == listed \cap unlinkFails # {}
        deleted == IF stopped THEN {} ELSE listed
        rmdirThrows == files \ deleted # {} \/ ioFault = "rmdir"
    IN  IF ~exists \/ ~StartsWithPrefix(dir)
          THEN [exists |-> exists, files |-> files, deleted |-> {}, failed |-> {},
                listingFailed |-> FALSE, errorCount |-> 0, threw |-> FALSE]
        ELSE IF ioFault = "readdir"
          THEN [exists |-> exists, files |-> files, deleted |-> {}, failed |-> {},
                listingFailed |-> TRUE, errorCount |-> 1, threw |-> FALSE]
        ELSE IF stopped
          THEN [exists |-> exists, files |-> files, deleted |-> {},
                failed |-> {CHOOSE f \in listed \cap unlinkFails : TRUE},
                listingFailed |-> FALSE, errorCount |-> 1, threw |-> FALSE]
        ELSE [exists |-> rmdirThrows, files |-> files \ deleted, deleted |-> deleted,
              failed |-> {}, listingFailed |-> FALSE,
              errorCount |-> IF rmdirThrows THEN 1 ELSE 0,
              threw |-> FALSE]

\* cleanupTempDir without the check of the directory's name, lines 376-379
cleanupTempDirAnyDirectory(dir, exists, files, generatedChunks, unlinkFails, ioFault) ==
    LET absoluteChunkPaths == {generatedChunks[k] : k \in 1..Len(generatedChunks)}
        listed == {f \in files : f \in absoluteChunkPaths}
        deleted == listed \ unlinkFails
        rmdirThrows == files \ deleted # {} \/ ioFault = "rmdir"
    IN  IF ~exists
          THEN [exists |-> exists, files |-> files, deleted |-> {}, failed |-> {},
                listingFailed |-> FALSE, errorCount |-> 0, threw |-> FALSE]
        ELSE IF ioFault = "readdir"
          THEN [exists |-> exists, files |-> files, deleted |-> {}, failed |-> {},
                listingFailed |-> TRUE, errorCount |-> 1, threw |-> FALSE]
        ELSE [exists |-> rmdirThrows, files |-> files \ deleted, deleted |-> deleted,
              failed |-> listed \cap unlinkFails, listingFailed |-> FALSE,
              errorCount |-> Cardinality(listed \cap unlinkFails)
                             + (IF rmdirThrows THEN 1 ELSE 0),
              threw |-> FALSE]

\* lines 365-408: cleanupTempDir(tempDir, generatedChunks) on a directory
\* `dir` that exists or not and holds `files`.
\* Chunk paths and directory entries are both joined to the same absolute
\* tempDir, so path.resolve leaves them as they are and two paths are equal
\* exactly when their file names are.  unlinkFails: the files whose
\* fs.unlinkSync throws; ioFault: "readdir" or "rmdir" when that call throws
\* for a reason of its own.  failed: the files whose unlink was called and
\* threw; listingFailed: fs.readdirSync threw.
cleanupTempDir(dir, exists, files, generatedChunks, unlinkFails, ioFault) ==
    LET absoluteChunkPaths == {generatedChunks[k] : k \in 1..Len(generatedChunks)}
        untouched == [exists |-> exists, files |-> files, deleted |-> {}, failed |-> {},
                      listingFailed |-> FALSE, errorCount |-> 0, threw |-> FALSE]
    IN  IF ~exists THEN untouched
        ELSE IF ~StartsWithPrefix(dir) THEN untouched
        ELSE IF ioFault = "readdir"
          THEN [untouched EXCEPT !.errorCount = 1, !.listingFailed = TRUE]
        ELSE
            LET listed == {f \in files : f \in absoluteChunkPaths}
                deleted == listed \ unlinkFails
                left == files \ deleted
                rmdirThrows == left # {} \/ ioFault = "rmdir"
            IN  [exists |-> rmdirThrows,
                 files |-> left,
                 deleted |-> deleted,
                 failed |-> listed \cap unlinkFails,
                 listingFailed |-> FALSE,
                 errorCount |-> Cardinality(listed \cap unlinkFails)
                                + (IF rmdirThrows THEN 1 ELSE 0),
                 threw |-> FALSE]

IoFaults == {"none", "readdir", "rmdir"}

\* another actor drops a file into the scratch directory
DropStray ==
    /\ dirExists
    /\ pc \notin {"done", "exited"}
    /\ \E n \in StrayNames \ dirFiles : dirFiles' = dirFiles \cup {n}
    /\ envFault' = TRUE
    /\ UNCHANGED <<inputVars, appVars, mainVars, splitVars, dirExists, outTranscript, outSummary>>
    /\ UNCHANGED <<summary, summaryWrites, loggedFailed, abortCause, spans, oversizeLeft, oversizeSeen, backend, outstanding, issued, results, cleanupCalls,
                   cleanupDeleted, cleanupGiven, unlinkThrew, readdirThrew, writeAttempts, summarizeCalls, delays>>

\* ------------------------------------------------------------------ main
\* main, lines 416-419: a missing audio file ends the process with status 1
MainEntry ==
    /\ pc = "main"
    /\ IF ~fileExists
          THEN pc' = "exited" /\ exitCode' = 1
          ELSE pc' = "createTempDir" /\ exitCode' = exitCode
    /\ UNCHANGED <<inputVars, appVars, tempDir, chunkResult, idx, fullTranscript,
                   successfulTranscriptions, result, splitVars, fsVars, histVars>>

\* createTempDir: fs.mkdtempSync creates the directory or throws
CreateTempDir ==
    /\ pc = "createTempDir"
    /\ \/ /\ tempDir' = MadeTempDir
          /\ dirExists' = TRUE
          /\ pc' = "probe"
          /\ abortCause' = abortCause
       \/ /\ tempDir' = tempDir
          /\ dirExists' = dirExists
          /\ pc' = "catch"
          /\ abortCause' = "mkdtemp"
    /\ UNCHANGED <<inputVars, appVars, chunkResult, idx, fullTranscript, successfulTranscriptions,
                   result, exitCode, splitVars, dirFiles, outTranscript, outSummary>>
    /\ UNCHANGED <<summary, summaryWrites, loggedFailed, spans, oversizeLeft, oversizeSeen, backend, outstanding,
                   issued, results, cleanupCalls, cleanupDeleted, cleanupGiven, unlinkThrew, readdirThrew, envFault,
                   writeAttempts, summarizeCalls, delays>>

\* -------------------------------------------------------------- splitAudio
\* a failed probe that does not stop splitAudio
ProbeFailureIgnored ==
    /\ pc = "probe"
    /\ \/ pc' = "extension" /\ chunkResult' = chunkResult /\ abortCause' = abortCause
       \/ pc' = "extension" /\ chunkResult' = chunkResult /\ abortCause' = "probe"
    /\ UNCHANGED <<inputVars, appVars, tempDir, idx, fullTranscript, successfulTranscriptions,
                   result, exitCode, splitVars, fsVars>>
    /\ UNCHANGED <<summary, summaryWrites, loggedFailed, spans, oversizeLeft, oversizeSeen, backend, outstanding,
                   issued, results, cleanupCalls, cleanupDeleted, cleanupGiven, unlinkThrew, readdirThrew, envFault,
                   writeAttempts, summarizeCalls, delays>>

\* getAudioDuration inside splitAudio: ffprobe reports the duration, or fails
\* and splitAudio returns { chunks: [], format: null }
Probe ==
    /\ pc = "probe"
    /\ \/ pc' = "extension" /\ chunkResult' = chunkResult /\ abortCause' = abortCause
       \/ pc' = "splitReturned" /\ chunkResult' = <<>> /\ abortCause' = "probe"
    /\ UNCHANGED <<inputVars, appVars, tempDir, idx, fullTranscript, successfulTranscriptions,
                   result, exitCode, splitVars, fsVars>>
    /\ UNCHANGED <<summary, summaryWrites, loggedFailed, spans, oversizeLeft, oversizeSeen, backend, outstanding,
                   issued, results, cleanupCalls, cleanupDeleted, cleanupGiven, unlinkThrew, readdirThrew, envFault,
                   writeAttempts, summarizeCalls, delays>>

\* lines 135-143: with no extension the code assigns to the const
\* fileExtension, which throws a TypeError out of splitAudio
Extension ==
    /\ pc = "extension"
    /\ IF hasExtension
          THEN /\ pc' = "outer"
               /\ chunks' = <<>>
               /\ startOffset' = 0
               /\ i' = 0
               /\ abortCause' = abortCause
          ELSE /\ pc' = "catch"
               /\ abortCause' = "extension"
               /\ UNCHANGED <<chunks, startOffset, i>>
    /\ UNCHANGED <<inputVars, appVars, tempDir, chunkResult, idx, fullTranscript,
                   successfulTranscriptions, result, exitCode, currentChunkLength,
                   chunkExported, chunkFailed, fsVars>>
    /\ UNCHANGED <<summary, summaryWrites, loggedFailed, spans, oversizeLeft, oversizeSeen, backend, outstanding,
                   issued, results, cleanupCalls, cleanupDeleted, cleanupGiven, unlinkThrew, readdirThrew, envFault,
                   writeAttempts, summarizeCalls, delays>>

\* splitAudio returns: its local variables are gone
SplitFrameGone ==
    /\ chunks' = <<>>
    /\ startOffset' = 0
    /\ i' = 0
    /\ currentChunkLength' = 0
    /\ chunkExported' = FALSE
    /\ chunkFailed' = FALSE

\* the outer loop with currentChunkLength declared outside it: a chunk
\* starts from the length the previous one ended with
OuterLoopKeepLength ==
    /\ pc = "outer"
    /\ IF startOffset < totalDuration
          THEN /\ currentChunkLength' = (IF i = 0 THEN CHUNK_LENGTH_SECONDS
                                                  ELSE currentChunkLength)
               /\ chunkExported' = FALSE
               /\ chunkFailed' = FALSE
               /\ pc' = "inner"
               /\ chunkResult' = chunkResult
               /\ UNCHANGED <<chunks, startOffset, i>>
          ELSE /\ chunkResult' = chunks
               /\ pc' = "splitReturned"
               /\ SplitFrameGone
    /\ UNCHANGED <<inputVars, appVars, tempDir, idx, fullTranscript, successfulTranscriptions,
                   result, exitCode, fsVars, histVars>>

\* the outer loop test with the end of the source let through: one more
\* pass is made at startOffset = totalDuration
OuterLoopInclusive ==
    /\ pc = "outer"
    /\ IF startOffset <= totalDuration
          THEN /\ currentChunkLength' = CHUNK_LENGTH_SECONDS
               /\ chunkExported' = FALSE
               /\ chunkFailed' = FALSE
               /\ pc' = "inner"
               /\ chunkResult' = chunkResult
               /\ UNCHANGED <<chunks, startOffset, i>>
          ELSE /\ chunkResult' = chunks
               /\ pc' = "splitReturned"
               /\ SplitFrameGone
    /\ UNCHANGED <<inputVars, appVars, tempDir, idx, fullTranscript, successfulTranscriptions,
                   result, exitCode, fsVars, histVars>>

\* line 146-150: the outer loop test; each chunk starts from chunkLengthSeconds
OuterLoop ==
    /\ pc = "outer"
    /\ IF startOffset < totalDuration
          THEN /\ currentChunkLength' = CHUNK_LENGTH_SECONDS
               /\ chunkExported' = FALSE
               /\ chunkFailed' = FALSE
               /\ pc' = "inner"
               /\ chunkResult' = chunkResult
               /\ UNCHANGED <<chunks, startOffset, i>>
          ELSE /\ chunkResult' = chunks
               /\ pc' = "splitReturned"
               /\ SplitFrameGone
    /\ UNCHANGED <<inputVars, appVars, tempDir, idx, fullTranscript, successfulTranscriptions,
                   result, exitCode, fsVars, histVars>>

\* the end of the span without the clamp to the source's duration
EndOffsetNoClamp(start, length) == start + Sec(length)

\* line 154
EndOffset(start, length) == Min(start + Sec(length), totalDuration)

\* lines 153-163: the inner loop test and the span of the next attempt
InnerLoop ==
    /\ pc = "inner"
    /\ IF ~chunkExported /\ currentChunkLength > 1
          THEN IF EndOffset(startOffset, currentChunkLength) - startOffset <= 0
                 THEN pc' = "afterInner"
                 ELSE pc' = "ffmpeg"
          ELSE pc' = "afterInner"
    /\ UNCHANGED <<inputVars, appVars, tempDir, chunkResult, idx, fullTranscript,
                   successfulTranscriptions, result, exitCode, splitVars, fsVars, histVars>>

\* the size test with the limit itself let through
FitsLimitInclusive(actualSizeBytes) == actualSizeBytes <= MAX_FILE_SIZE_BYTES

\* line 193
FitsLimit(actualSizeBytes) == actualSizeBytes < MAX_FILE_SIZE_BYTES

\* Math.round in place of Math.floor
ReducedRounded(length) == (length * SafetyNum * 2 + SafetyDen) \div (SafetyDen * 2)

\* a safety factor of 1: the length is not reduced
ReducedNot(length) == length

\* line 201: Math.floor(currentChunkLength * safetyFactor)
Reduced(length) == (length * SafetyNum) \div SafetyDen

\* the attempt loop left only by an exported chunk: a failed attempt is
\* tried again
AfterAttemptRetryOnFailure(failed, exported) == IF exported THEN "afterInner" ELSE "inner"

\* the floor test that never fires
AtFloorNever(length) == FALSE

\* line 202: the reduced length is at the 1-second floor
AtFloor(length) == length <= 1

\* where the attempt loop goes after the awaited promise (lines 227-237)
AfterAttempt(failed, exported) == IF failed \/ exported THEN "afterInner" ELSE "inner"

\* an oversize slice is an outcome this source can produce
MayBeOversize == totalDuration <= Sec(MaxShortSeconds) \/ oversizeLeft > 0

\* lines 185-197: ffmpeg ends, the slice is under the limit and is accepted
SliceAccepted ==
    /\ pc = "ffmpeg"
    /\ \E size \in SliceSizes :
         /\ FitsLimit(size)
         /\ chunks' = Append(chunks, ChunkName(i))
         /\ spans' = Append(spans, [start |-> startOffset,
                                     end |-> EndOffset(startOffset, currentChunkLength),
                                     size |-> size, name |-> ChunkName(i)])
    /\ dirFiles' = dirFiles \cup {ChunkName(i)}
    /\ startOffset' = EndOffset(startOffset, currentChunkLength)
    /\ chunkExported' = TRUE
    /\ pc' = AfterAttempt(chunkFailed, TRUE)
    /\ UNCHANGED <<inputVars, appVars, tempDir, chunkResult, idx, fullTranscript,
                   successfulTranscriptions, result, exitCode, i, currentChunkLength,
                   chunkFailed, dirExists, outTranscript, outSummary>>
    /\ UNCHANGED <<summary, summaryWrites, loggedFailed, abortCause, oversizeLeft, oversizeSeen, backend, outstanding, issued, results, cleanupCalls, cleanupDeleted,
                   cleanupGiven, unlinkThrew, readdirThrew, envFault, writeAttempts, summarizeCalls, delays>>

\* lines 198-210: the slice is too large: it is unlinked (the unlink may
\* fail), the length is reduced, and at the floor the promise is rejected
SliceOversize ==
    /\ pc = "ffmpeg"
    /\ MayBeOversize
    /\ \E size \in SliceSizes, unlinkThrows \in BOOLEAN :
         /\ ~FitsLimit(size)
         /\ dirFiles' = IF unlinkThrows THEN dirFiles \cup {ChunkName(i)}
                                        ELSE dirFiles \ {ChunkName(i)}
         /\ envFault' = (envFault \/ unlinkThrows)
    /\ currentChunkLength' = Reduced(currentChunkLength)
    /\ oversizeSeen' = TRUE
    /\ abortCause' = (IF AtFloor(Reduced(currentChunkLength)) THEN "floor" ELSE abortCause)
    /\ chunkFailed' = (AtFloor(Reduced(currentChunkLength)))
    /\ pc' = AfterAttempt(AtFloor(Reduced(currentChunkLength)), chunkExported)
    /\ oversizeLeft' = IF totalDuration <= Sec(MaxShortSeconds) THEN oversizeLeft
                                                                ELSE oversizeLeft - 1
    /\ UNCHANGED <<inputVars, appVars, tempDir, chunkResult, idx, fullTranscript,
                   successfulTranscriptions, result, exitCode, chunks, startOffset, i,
                   chunkExported, dirExists, outTranscript, outSummary>>
    /\ UNCHANGED <<summary, summaryWrites, loggedFailed, spans, backend, outstanding, issued, results, cleanupCalls, cleanupDeleted,
                   cleanupGiven, unlinkThrew, readdirThrew, writeAttempts, summarizeCalls, delays>>

\* lines 211-215: ffmpeg ends but fs.statSync throws; the output file is
\* left as it is (missing, or present and unreadable)
SliceStatError ==
    /\ pc = "ffmpeg"
    /\ \E present \in BOOLEAN :
         /\ dirFiles' = IF present THEN dirFiles \cup {ChunkName(i)}
                                   ELSE dirFiles \ {ChunkName(i)}
         /\ envFault' = (envFault \/ present)
    /\ abortCause' = "stat"
    /\ chunkFailed' = TRUE
    /\ pc' = AfterAttempt(TRUE, chunkExported)
    /\ UNCHANGED <<inputVars, appVars, tempDir, chunkResult, idx, fullTranscript,
                   successfulTranscriptions, result, exitCode, chunks, startOffset, i,
                   currentChunkLength, chunkExported, dirExists, outTranscript, outSummary>>
    /\ UNCHANGED <<summary, summaryWrites, loggedFailed, spans, oversizeLeft, oversizeSeen, backend, outstanding, issued, results, cleanupCalls,
                   cleanupDeleted, cleanupGiven, unlinkThrew, readdirThrew, writeAttempts, summarizeCalls, delays>>

\* the error handler without the unlink: the partial output file stays
SliceErrorKeepsPartial ==
    /\ pc = "ffmpeg"
    /\ dirFiles' = dirFiles \cup {ChunkName(i)}
    /\ abortCause' = "ffmpeg"
    /\ chunkFailed' = TRUE
    /\ pc' = AfterAttempt(TRUE, chunkExported)
    /\ UNCHANGED <<inputVars, appVars, tempDir, chunkResult, idx, fullTranscript,
                   successfulTranscriptions, result, exitCode, chunks, startOffset, i,
                   currentChunkLength, chunkExported, dirExists, outTranscript, outSummary>>
    /\ UNCHANGED <<summary, summaryWrites, loggedFailed, spans, oversizeLeft, oversizeSeen,
                   backend, outstanding, issued, results, cleanupCalls, cleanupDeleted,
                   cleanupGiven, unlinkThrew, readdirThrew, envFault, writeAttempts, summarizeCalls, delays>>

\* lines 177-184: ffmpeg reports an error; a partial output file is unlinked
\* if it exists (the unlink may fail), and the promise is rejected
SliceError ==
    /\ pc = "ffmpeg"
    /\ \E partialLeft \in BOOLEAN :
         /\ dirFiles' = IF partialLeft THEN dirFiles \cup {ChunkName(i)}
                                       ELSE dirFiles \ {ChunkName(i)}
         /\ envFault' = (envFault \/ partialLeft)
    /\ abortCause' = "ffmpeg"
    /\ chunkFailed' = TRUE
    /\ pc' = AfterAttempt(TRUE, chunkExported)
    /\ UNCHANGED <<inputVars, appVars, tempDir, chunkResult, idx, fullTranscript,
                   successfulTranscriptions, result, exitCode, chunks, startOffset, i,
                   currentChunkLength, chunkExported, dirExists, outTranscript, outSummary>>
    /\ UNCHANGED <<summary, summaryWrites, loggedFailed, spans, oversizeLeft, oversizeSeen, backend, outstanding, issued, results, cleanupCalls,
                   cleanupDeleted, cleanupGiven, unlinkThrew, readdirThrew, writeAttempts, summarizeCalls, delays>>

\* lines 239-253: after the attempt loop
AfterInner ==
    /\ pc = "afterInner"
    /\ IF chunkFailed \/ ~chunkExported
          THEN /\ chunkResult' = <<>>
               /\ pc' = "splitReturned"
               /\ SplitFrameGone
          ELSE /\ i' = i + 1
               /\ pc' = "outer"
               /\ chunkResult' = chunkResult
               /\ UNCHANGED <<chunks, startOffset, currentChunkLength, chunkExported,
                              chunkFailed>>
    /\ UNCHANGED <<inputVars, appVars, tempDir, idx, fullTranscript, successfulTranscriptions,
                   result, exitCode, fsVars, histVars>>

\* ------------------------------------------------------- transcribeChunk
\* what assemblyai.transcripts.transcribe may do for chunk k: throw, or
\* return a transcript with a status and a text
BackendOutcomes(k) ==
    {[threw |-> TRUE, status |-> "none", text |-> <<>>]}
    \cup {[threw |-> FALSE, status |-> st, text |-> <<>>] : st \in {"error", "queued", "processing"}}
    \cup {[threw |-> FALSE, status |-> "completed", text |-> t] : t \in TextsFor(k)}

\* the text returned whatever the status of the transcript
transcribeChunkIgnoresStatus(outcome) ==
    IF outcome.threw THEN NULL ELSE outcome.text

\* lines 265-301: the value transcribeChunk returns
transcribeChunk(outcome) ==
    IF outcome.threw THEN NULL
    ELSE IF outcome.status = "error" THEN NULL
    ELSE IF outcome.status # "completed" THEN NULL
    ELSE outcome.text

\* the fragment put in front of the transcript instead of behind it
AppendPartInFront(transcript, transcriptPart) == transcriptPart \o <<NL, NL>> \o transcript

\* line 459
AppendPart(transcript, transcriptPart) == transcript \o transcriptPart \o <<NL, NL>>

\* lines 444-452: main has the split's result
SplitReturned ==
    /\ pc = "splitReturned"
    /\ IF Len(chunkResult) = 0
          THEN pc' = "catch" /\ UNCHANGED <<idx, fullTranscript, successfulTranscriptions>>
          ELSE /\ pc' = "transcribe"
               /\ idx' = 0
               /\ fullTranscript' = <<>>
               /\ successfulTranscriptions' = 0
    /\ UNCHANGED <<inputVars, appVars, tempDir, chunkResult, result, exitCode, splitVars, fsVars, histVars>>

\* the call issued without awaiting it: the loop goes on to the next chunk
TranscribeIssueNoAwait ==
    /\ pc = "transcribe"
    /\ backend' = NoOutcome
    /\ idx < Len(chunkResult)
    /\ outstanding' = outstanding \cup {idx}
    /\ issued' = Append(issued, idx)
    /\ idx' = idx + 1
    /\ pc' = "transcribe"
    /\ UNCHANGED <<inputVars, appVars, tempDir, chunkResult, fullTranscript,
                   successfulTranscriptions, result, exitCode, splitVars, fsVars>>
    /\ UNCHANGED <<summary, summaryWrites, loggedFailed, abortCause, spans, oversizeLeft, oversizeSeen, results, cleanupCalls, cleanupDeleted,
                   cleanupGiven, unlinkThrew, readdirThrew, envFault, writeAttempts, summarizeCalls, delays>>

\* the chunk file removed as soon as its upload has been started
TranscribeIssueDeletesChunk ==
    /\ pc = "transcribe"
    /\ backend' = NoOutcome
    /\ idx < Len(chunkResult)
    /\ outstanding' = outstanding \cup {idx}
    /\ issued' = Append(issued, idx)
    /\ pc' = "awaitTranscribe"
    /\ dirFiles' = dirFiles \ {chunkResult[idx + 1]}
    /\ UNCHANGED <<inputVars, appVars, tempDir, chunkResult, idx, fullTranscript,
                   successfulTranscriptions, result, exitCode, splitVars, dirExists,
                   outTranscript, outSummary>>
    /\ UNCHANGED <<summary, summaryWrites, loggedFailed, abortCause, spans, oversizeLeft, oversizeSeen, results, cleanupCalls, cleanupDeleted, cleanupGiven, unlinkThrew, readdirThrew,
                   envFault, writeAttempts, summarizeCalls, delays>>

\* lines 454-457: the loop test and the call of transcribeChunk for chunk idx
TranscribeIssue ==
    /\ pc = "transcribe"
    /\ backend' = NoOutcome
    /\ idx < Len(chunkResult)
    /\ outstanding' = outstanding \cup {idx}
    /\ issued' = Append(issued, idx)
    /\ pc' = "awaitTranscribe"
    /\ UNCHANGED <<inputVars, appVars, tempDir, chunkResult, idx, fullTranscript,
                   successfulTranscriptions, result, exitCode, splitVars, fsVars>>
    /\ UNCHANGED <<summary, summaryWrites, loggedFailed, abortCause, spans, oversizeLeft, oversizeSeen, results, cleanupCalls, cleanupDeleted, cleanupGiven, unlinkThrew, readdirThrew,
                   envFault, writeAttempts, summarizeCalls, delays>>

\* the delay without the test for the last chunk
DelayNeededAfterEvery(k) == options.delayBetweenChunks

\* line 465
DelayNeeded(k) == options.delayBetweenChunks /\ k < Len(chunkResult) - 1

\* a null part treated as fatal
LoopStepAbortOnNull(transcriptPart, k) ==
    IF transcriptPart = NULL THEN "catch"
    ELSE IF DelayNeeded(k) THEN "delay" ELSE "transcribe"

\* lines 458-468: where the loop body goes once transcribeChunk has returned;
\* a null part is only logged
LoopStep(transcriptPart, k) == IF DelayNeeded(k) THEN "delay" ELSE "transcribe"

\* lines 457-468: the awaited call returns and the loop body finishes
TranscribeReturn ==
    /\ pc = "awaitTranscribe"
    /\ \E outcome \in BackendOutcomes(idx) :
         LET transcriptPart == transcribeChunk(outcome)
         IN  /\ results' = Append(results, transcriptPart)
             /\ backend' = outcome
             /\ IF transcriptPart # NULL
                   THEN /\ fullTranscript' = AppendPart(fullTranscript, transcriptPart)
                        /\ successfulTranscriptions' = successfulTranscriptions + 1
                   ELSE UNCHANGED <<fullTranscript, successfulTranscriptions>>
    /\ outstanding' = outstanding \ {idx}
    /\ pc' = LoopStep(results'[Len(results')], idx)
    /\ idx' = IF pc' = "transcribe" THEN idx + 1 ELSE idx
    /\ UNCHANGED <<inputVars, appVars, tempDir, chunkResult, result, exitCode, splitVars, fsVars>>
    /\ UNCHANGED <<summary, summaryWrites, loggedFailed, abortCause, spans, oversizeLeft, oversizeSeen, issued, cleanupCalls, cleanupDeleted, cleanupGiven, unlinkThrew, readdirThrew,
                   envFault, writeAttempts, summarizeCalls, delays>>

\* line 466: the pacing timer fires
Delay ==
    /\ pc = "delay"
    /\ delays' = delays + 1
    /\ idx' = idx + 1
    /\ pc' = "transcribe"
    /\ UNCHANGED <<inputVars, appVars, tempDir, chunkResult, fullTranscript, successfulTranscriptions,
                   result, exitCode, splitVars, fsVars>>
    /\ UNCHANGED <<summary, summaryWrites, loggedFailed, abortCause, spans, oversizeLeft, oversizeSeen, backend, outstanding, issued, results, cleanupCalls,
                   cleanupDeleted, cleanupGiven, unlinkThrew, readdirThrew, envFault, writeAttempts, summarizeCalls>>

\* the test without the trim
HasTextNoTrim(transcript) == Len(transcript) > 0

\* line 472
HasText(transcript) == Len(Trim(transcript)) > 0

\* the successful count logged as the failed one
FailedCountSuccesses == successfulTranscriptions

\* the transcript saved and the loop left while chunks remain
SaveTranscriptEarly ==
    /\ pc = "transcribe"
    /\ backend' = NoOutcome
    /\ loggedFailed' = Len(chunkResult) - successfulTranscriptions
    /\ IF HasText(fullTranscript)
          THEN /\ writeAttempts' = writeAttempts + 1
               /\ \/ outTranscript' = fullTranscript
                  \/ outTranscript' = outTranscript
          ELSE UNCHANGED <<writeAttempts, outTranscript>>
    /\ pc' = "summarize"
    /\ UNCHANGED <<inputVars, appVars, tempDir, chunkResult, idx, fullTranscript,
                   successfulTranscriptions, result, exitCode, splitVars, dirExists,
                   dirFiles, outSummary>>
    /\ UNCHANGED <<summary, summaryWrites, abortCause, spans, oversizeLeft, oversizeSeen, outstanding, issued,
                   results, cleanupCalls, cleanupDeleted, cleanupGiven, unlinkThrew, readdirThrew, envFault,
                   summarizeCalls, delays>>

\* line 469: the failed count of the log line
FailedCount == Len(chunkResult) - successfulTranscriptions

\* lines 469-481: the loop is over and the counts are logged; the transcript
\* is written if it has text (fs.writeFileSync may throw, which is logged)
SaveTranscript ==
    /\ pc = "transcribe"
    /\ backend' = NoOutcome
    /\ ~(idx < Len(chunkResult))
    /\ loggedFailed' = FailedCount
    /\ IF HasText(fullTranscript)
          THEN /\ writeAttempts' = writeAttempts + 1
               /\ \/ outTranscript' = fullTranscript
                  \/ outTranscript' = outTranscript
          ELSE UNCHANGED <<writeAttempts, outTranscript>>
    /\ pc' = "summarize"
    /\ UNCHANGED <<inputVars, appVars, tempDir, chunkResult, idx, fullTranscript,
                   successfulTranscriptions, result, exitCode, splitVars, dirExists,
                   dirFiles, outSummary>>
    /\ UNCHANGED <<summary, summaryWrites, abortCause, spans, oversizeLeft, oversizeSeen, outstanding, issued,
                   results, cleanupCalls, cleanupDeleted, cleanupGiven, unlinkThrew, readdirThrew, envFault,
                   summarizeCalls, delays>>

\* --------------------------------------------------------- summarizeText
\* what anthropic.messages.create may do: throw, or return a message whose
\* content is missing/empty ("nocontent"), holds no text block or only empty
\* text ("notext"), or holds text ("text")
SummaryOutcomes == {"throw", "nocontent", "notext", "text"}

\* the strings summarizeText may return
SummaryText == <<83>>
NoTextBlocksMessage == <<67, 49>>
NoContentMessage == <<67, 50>>

\* lines 308-358: the value summarizeText returns
summarizeText(text, outcome) ==
    IF Len(text) = 0 \/ Len(Trim(text)) = 0 THEN NULL
    ELSE IF outcome = "throw" THEN NULL
    ELSE IF outcome = "nocontent" THEN NoContentMessage
    ELSE IF outcome = "notext" THEN NoTextBlocksMessage
    ELSE SummaryText

\* the summary wanted whatever the transcription gave
SummaryWantedAlways == TRUE

\* the summary wanted only when no chunk failed
SummaryWantedNoFailures ==
    HasText(fullTranscript) /\ successfulTranscriptions = Len(chunkResult)

\* line 484
SummaryWanted == HasText(fullTranscript) /\ successfulTranscriptions > 0

\* lines 483-490, 504-508: summarizeText is called, or the phase is skipped
SummarizeIssue ==
    /\ pc = "summarize"
    /\ IF SummaryWanted /\ ~options.skipSummary
          THEN pc' = "awaitSummarize" /\ summarizeCalls' = summarizeCalls + 1
          ELSE pc' = "return" /\ summarizeCalls' = summarizeCalls
    /\ UNCHANGED <<inputVars, appVars, tempDir, chunkResult, idx, fullTranscript,
                   successfulTranscriptions, result, exitCode, splitVars, fsVars>>
    /\ UNCHANGED <<summary, summaryWrites, loggedFailed, abortCause, spans, oversizeLeft, oversizeSeen, backend, outstanding, issued, results, cleanupCalls,
                   cleanupDeleted, cleanupGiven, unlinkThrew, readdirThrew, envFault, writeAttempts, delays>>

\* every value of summary taken as one to write
TruthyAlways(value) == TRUE

\* line 491, if (summary): null and the empty string are falsy
Truthy(value) == value # NULL /\ value # <<>>

\* the write of the summary outside a try block: its exception reaches
\* main's catch block
SummarizeReturnWriteFatal ==
    /\ pc = "awaitSummarize"
    /\ \E outcome \in SummaryOutcomes :
         summary' = summarizeText(fullTranscript, outcome)
    /\ IF Truthy(summary')
          THEN /\ summaryWrites' = summaryWrites + 1
               /\ \/ outSummary' = summary' /\ pc' = "return"
                  \/ outSummary' = outSummary /\ pc' = "catch"
          ELSE pc' = "return" /\ UNCHANGED <<summaryWrites, outSummary>>
    /\ UNCHANGED <<inputVars, appVars, tempDir, chunkResult, idx, fullTranscript,
                   successfulTranscriptions, result, exitCode, splitVars, dirExists,
                   dirFiles, outTranscript>>
    /\ UNCHANGED <<loggedFailed, abortCause, spans, oversizeLeft, oversizeSeen, backend,
                   outstanding, issued, results, cleanupCalls, cleanupDeleted, cleanupGiven, unlinkThrew, readdirThrew,
                   envFault, writeAttempts, summarizeCalls, delays>>

\* lines 490-502: summarizeText returns; a summary is written (the write may
\* throw, which is logged)
SummarizeReturn ==
    /\ pc = "awaitSummarize"
    /\ \E outcome \in SummaryOutcomes :
         summary' = summarizeText(fullTranscript, outcome)
    /\ IF Truthy(summary')
          THEN /\ summaryWrites' = summaryWrites + 1
               /\ \/ outSummary' = summary'
                  \/ outSummary' = outSummary
          ELSE UNCHANGED <<summaryWrites, outSummary>>
    /\ pc' = "return"
    /\ UNCHANGED <<inputVars, appVars, tempDir, chunkResult, idx, fullTranscript,
                   successfulTranscriptions, result, exitCode, splitVars, dirExists,
                   dirFiles, outTranscript>>
    /\ UNCHANGED <<loggedFailed, abortCause, spans, oversizeLeft, oversizeSeen, backend, outstanding, issued, results,
                   cleanupCalls, cleanupDeleted, cleanupGiven, unlinkThrew, readdirThrew, envFault, writeAttempts,
                   summarizeCalls, delays>>

\* a run that left no transcript file reported as an error
ReturnErrorWithoutTranscript ==
    /\ pc = "return"
    /\ result' = [returned |-> TRUE, error |-> (outTranscript = NULL),
                  transcriptPath |-> (outTranscript # NULL),
                  summaryPath |-> (outSummary # NULL)]
    /\ pc' = "finally"
    /\ UNCHANGED <<inputVars, appVars, tempDir, chunkResult, idx, fullTranscript,
                   successfulTranscriptions, exitCode, splitVars, fsVars, histVars>>

\* lines 510-514: the value of the try block
Return ==
    /\ pc = "return"
    /\ result' = [returned |-> TRUE, error |-> FALSE,
                  transcriptPath |-> (outTranscript # NULL),
                  summaryPath |-> (outSummary # NULL)]
    /\ pc' = "finally"
    /\ UNCHANGED <<inputVars, appVars, tempDir, chunkResult, idx, fullTranscript,
                   successfulTranscriptions, exitCode, splitVars, fsVars, histVars>>

\* lines 516-520: the value of the catch block
Catch ==
    /\ pc = "catch"
    /\ result' = [returned |-> TRUE, error |-> TRUE,
                  transcriptPath |-> FALSE, summaryPath |-> FALSE]
    /\ pc' = "finally"
    /\ UNCHANGED <<inputVars, appVars, tempDir, chunkResult, idx, fullTranscript,
                   successfulTranscriptions, exitCode, splitVars, fsVars, histVars>>

\* the keepTempFiles option ignored
CleanupWantedAlways == tempDir # NoDir

\* lines 523-526: cleanupTempDir is called
CleanupWanted == tempDir # NoDir /\ ~options.keepTempFiles

\* lines 521-533: the finally block
Finally ==
    /\ pc = "finally"
    /\ IF CleanupWanted
          THEN \E unlinkFails \in SUBSET dirFiles, ioFault \in IoFaults :
                 LET r == cleanupTempDir(tempDir, dirExists, dirFiles, chunkResult,
                                         unlinkFails, ioFault)
                 IN  /\ dirExists' = r.exists
                     /\ dirFiles' = r.files
                     /\ cleanupDeleted' = cleanupDeleted \cup r.deleted
                     /\ cleanupGiven' = chunkResult
                     /\ unlinkThrew' = unlinkThrew \cup r.failed
                     /\ readdirThrew' = (readdirThrew \/ r.listingFailed)
                     /\ cleanupCalls' = cleanupCalls + 1
                     /\ envFault' = (envFault \/ unlinkFails # {} \/ ioFault # "none")
                     /\ pc' = IF r.threw THEN "rejected" ELSE "done"
          ELSE /\ pc' = "done"
               /\ UNCHANGED <<dirExists, dirFiles, cleanupDeleted, cleanupGiven, unlinkThrew, readdirThrew,
                              cleanupCalls, envFault>>
    /\ UNCHANGED <<inputVars, appVars, tempDir, chunkResult, idx, fullTranscript,
                   successfulTranscriptions, result, exitCode, splitVars, outTranscript,
                   outSummary>>
    /\ UNCHANGED <<summary, summaryWrites, loggedFailed, abortCause, spans, oversizeLeft, oversizeSeen, backend, outstanding, issued, results, writeAttempts,
                   summarizeCalls, delays>>

\* lines 560-570: the command's status once main's promise has settled;
\* process.exit(1) is called only in the handler of a rejected promise, and
\* the value of a fulfilled promise is not looked at
CliExitStatus(rejected, outcome) == IF rejected THEN 1 ELSE 0

\* lines 559-570: the command line action: main's promise settles, nothing
\* is left to run, and the process ends
CliExit ==
    /\ pc \in {"done", "rejected"}
    /\ exitCode = -1
    /\ exitCode' = CliExitStatus(pc = "rejected", result)
    /\ UNCHANGED <<inputVars, appVars, pc, tempDir, chunkResult, idx, fullTranscript,
                   successfulTranscriptions, result, splitVars, fsVars, histVars>>

Next ==
    \/ MainEntry
    \/ CreateTempDir
    \/ Probe
    \/ Extension
    \/ OuterLoop
    \/ InnerLoop
    \/ SliceAccepted
    \/ SliceOversize
    \/ SliceStatError
    \/ SliceError
    \/ AfterInner
    \/ SplitReturned
    \/ TranscribeIssue
    \/ TranscribeReturn
    \/ Delay
    \/ SaveTranscript
    \/ SummarizeIssue
    \/ SummarizeReturn
    \/ Return
    \/ Catch
    \/ Finally
    \/ CliExit
    \/ DropStray

Spec == Init /\ [][Next]_vars

\* ------------------------------------------- cleanupTempDir on its own
\* cleanupTempDir applied, possibly several times, to any directory
MaxCleanupCalls == 2

\* directories cleanupTempDir may be given
CleanupDirs == {MadeTempDir, <<"recordings_", "2024">>}
\* files they may hold and chunk lists that may be passed
CleanupNames == {ChunkName(0), ChunkName(1)} \cup StrayNames
CleanupLists == {<<>>, <<ChunkName(0)>>, <<ChunkName(1)>>, <<ChunkName(0), ChunkName(1)>>}

InitCleanup ==
    /\ AppIdle
    /\ fileExists = TRUE
    /\ hasExtension = TRUE
    /\ totalDuration = 0
    /\ options = [skipSummary |-> FALSE, keepTempFiles |-> FALSE, delayBetweenChunks |-> FALSE]
    /\ pc = "cleanup"
    /\ tempDir \in CleanupDirs
    /\ chunkResult \in CleanupLists
    /\ idx = 0
    /\ fullTranscript = <<>>
    /\ successfulTranscriptions = 0
    /\ result = NoResult
    /\ exitCode = -1
    /\ chunks = <<>>
    /\ startOffset = 0
    /\ i = 0
    /\ currentChunkLength = 0
    /\ chunkExported = FALSE
    /\ chunkFailed = FALSE
    /\ dirExists \in BOOLEAN
    /\ dirFiles \in SUBSET CleanupNames
    /\ ~dirExists => dirFiles = {}
    /\ outTranscript = NULL
    /\ outSummary = NULL
    /\ abortCause = "none"
    /\ spans = <<>>
    /\ oversizeLeft = 0
    /\ oversizeSeen = FALSE
    /\ backend = NoOutcome
    /\ outstanding = {}
    /\ issued = <<>>
    /\ results = <<>>
    /\ cleanupCalls = 0
    /\ cleanupDeleted = {}
    /\ cleanupGiven = <<>>
    /\ unlinkThrew = {}
    /\ readdirThrew = FALSE
    /\ envFault = FALSE
    /\ writeAttempts = 0
    /\ summarizeCalls = 0
    /\ delays = 0
    /\ summary = NULL
    /\ summaryWrites = 0
    /\ loggedFailed = -1

\* one call cleanupTempDir(tempDir, chunkResult)
CallCleanup ==
    /\ pc = "cleanup"
    /\ cleanupCalls < MaxCleanupCalls
    /\ \E unlinkFails \in SUBSET dirFiles, ioFault \in IoFaults :
         LET r == cleanupTempDir(tempDir, dirExists, dirFiles, chunkResult,
                                 unlinkFails, ioFault)
         IN  /\ dirExists' = r.exists
             /\ dirFiles' = r.files
             /\ cleanupDeleted' = cleanupDeleted \cup r.deleted
             /\ cleanupGiven' = chunkResult
             /\ unlinkThrew' = unlinkThrew \cup r.failed
             /\ readdirThrew' = (readdirThrew \/ r.listingFailed)
             /\ cleanupCalls' = cleanupCalls + 1
             /\ envFault' = (envFault \/ unlinkFails # {} \/ ioFault # "none")
             /\ pc' = IF r.threw THEN "rejected" ELSE "cleanup"
    /\ UNCHANGED <<inputVars, appVars, tempDir, chunkResult, idx, fullTranscript,
                   successfulTranscriptions, result, exitCode, splitVars, outTranscript,
                   outSummary>>
    /\ UNCHANGED <<summary, summaryWrites, loggedFailed, abortCause, spans, oversizeLeft, oversizeSeen, backend, outstanding, issued, results, writeAttempts,
                   summarizeCalls, delays>>

NextCleanup ==
    \/ CallCleanup
    \/ DropStray

SpecCleanup == InitCleanup /\ [][NextCleanup]_vars

\* --------------------------------------------------- splitAudio on its own
\* one call splitAudio(filePath, tempDir), line 444, from its first statement
\* to its return or throw, every slicing call settling
InitSplit ==
    /\ AppIdle
    /\ fileExists = TRUE
    /\ hasExtension \in BOOLEAN
    /\ totalDuration \in Durations
    /\ options = [skipSummary |-> FALSE, keepTempFiles |-> FALSE, delayBetweenChunks |-> FALSE]
    /\ pc = "probe"
    /\ tempDir = MadeTempDir
    /\ chunkResult = <<>>
    /\ idx = 0
    /\ fullTranscript = <<>>
    /\ successfulTranscriptions = 0
    /\ result = NoResult
    /\ exitCode = -1
    /\ chunks = <<>>
    /\ startOffset = 0
    /\ i = 0
    /\ currentChunkLength = 0
    /\ chunkExported = FALSE
    /\ chunkFailed = FALSE
    /\ dirExists = TRUE
    /\ dirFiles = {}
    /\ outTranscript = NULL
    /\ outSummary = NULL
    /\ abortCause = "none"
    /\ spans = <<>>
    /\ oversizeLeft = MaxOversizeLong
    /\ oversizeSeen = FALSE
    /\ backend = NoOutcome
    /\ outstanding = {}
    /\ issued = <<>>
    /\ results = <<>>
    /\ cleanupCalls = 0
    /\ cleanupDeleted = {}
    /\ cleanupGiven = <<>>
    /\ unlinkThrew = {}
    /\ readdirThrew = FALSE
    /\ envFault = FALSE
    /\ writeAttempts = 0
    /\ summarizeCalls = 0
    /\ delays = 0
    /\ summary = NULL
    /\ summaryWrites = 0
    /\ loggedFailed = -1

NextSplit ==
    \/ Probe
    \/ Extension
    \/ OuterLoop
    \/ InnerLoop
    \/ SliceAccepted
    \/ SliceOversize
    \/ SliceStatError
    \/ SliceError
    \/ AfterInner

\* the statements of splitAudio run one after the other and every awaited
\* slicing call settles
SpecSplitLive == InitSplit /\ [][NextSplit]_vars /\ WF_vars(NextSplit)

\* ================================================================ app.js
\* processAllAudioFiles, processAudioFile and processSingleFile, with the
\* two child commands reduced to the ways they can end
MaxBatchFiles == 2

pipelineVars == <<inputVars, mainVars, splitVars, fsVars, histVars>>

\* transcribeSummarize.js is not running in this process
PipelineIdle ==
    /\ fileExists = TRUE
    /\ hasExtension = TRUE
    /\ totalDuration = 0
    /\ options = [skipSummary |-> FALSE, keepTempFiles |-> FALSE, delayBetweenChunks |-> FALSE]
    /\ pc = "idle"
    /\ tempDir = NoDir
    /\ chunkResult = <<>>
    /\ idx = 0
    /\ fullTranscript = <<>>
    /\ successfulTranscriptions = 0
    /\ result = NoResult
    /\ exitCode = -1
    /\ chunks = <<>>
    /\ startOffset = 0
    /\ i = 0
    /\ currentChunkLength = 0
    /\ chunkExported = FALSE
    /\ chunkFailed = FALSE
    /\ dirExists = FALSE
    /\ dirFiles = {}
    /\ outTranscript = NULL
    /\ outSummary = NULL
    /\ abortCause = "none"
    /\ spans = <<>>
    /\ oversizeLeft = 0
    /\ oversizeSeen = FALSE
    /\ backend = NoOutcome
    /\ outstanding = {}
    /\ issued = <<>>
    /\ results = <<>>
    /\ cleanupCalls = 0
    /\ cleanupDeleted = {}
    /\ cleanupGiven = <<>>
    /\ unlinkThrew = {}
    /\ readdirThrew = FALSE
    /\ envFault = FALSE
    /\ writeAttempts = 0
    /\ summarizeCalls = 0
    /\ delays = 0
    /\ summary = NULL
    /\ summaryWrites = 0
    /\ loggedFailed = -1

\* what the disk may hold for one base name before it is processed: files
\* left by earlier runs
PriorFiles == [Dirs \X Kinds -> {"none", "old"}]

AppOptions == [generateFocusedSummary : BOOLEAN, continueOnError : BOOLEAN,
               useOutputDir : BOOLEAN]

\* what processSingleFile may be given: a path that does not exist, a
\* *_transcript*.txt file, an audio file, any other file
SingleKinds == {"missing", "transcript", "audio", "other"}

InitApp ==
    /\ PipelineIdle
    /\ appOptions \in AppOptions
    /\ fileIdx = 0
    /\ successCount = 0
    /\ skipTranscription = FALSE
    /\ childRun = "none"
    /\ focusRun = "none"
    /\ retval = "none"
    /\ singleResult = "none"
    /\ pending = {}
    /\ fileGroups = {}
    /\ \/ /\ caller = "batch"
          /\ appPc = "batch"
          /\ audioFiles \in 1..MaxBatchFiles
          /\ singleKind = "none"
          /\ audioDir = AUDIO_INPUT_DIR
          /\ appFiles = NoFiles
       \/ /\ caller = "single"
          /\ appPc = "single"
          /\ audioFiles = 0
          /\ singleKind \in SingleKinds
          /\ audioDir \in Dirs
          /\ appFiles \in PriorFiles

\* app.js lines 317-322 and 332: the loop of processAllAudioFiles calls
\* processAudioFile for the next file of audio-input, or ends
BatchNext ==
    /\ appPc = "batch"
    /\ caller = "batch"
    /\ IF fileIdx < audioFiles
          THEN /\ appPc' = "processAudioFile"
               /\ appFiles' \in PriorFiles
               /\ skipTranscription' = FALSE
               /\ childRun' = "none"
               /\ focusRun' = "none"
               /\ retval' = "none"
          ELSE /\ appPc' = "batchDone"
               /\ UNCHANGED <<appFiles, skipTranscription, childRun, focusRun, retval>>
    /\ UNCHANGED <<caller, appOptions, audioFiles, fileIdx, successCount, audioDir,
                   singleKind, singleResult, pending, fileGroups, pipelineVars>>

\* app.js lines 325-326: if (success) successCount++
BatchCounts(success) == success = "true"

\* app.js lines 323-330: processAudioFile has returned to the batch loop
BatchReturn ==
    /\ appPc = "returned"
    /\ caller = "batch"
    /\ successCount' = (IF BatchCounts(retval) THEN successCount + 1 ELSE successCount)
    /\ fileIdx' = fileIdx + 1
    /\ appPc' = "batch"
    /\ UNCHANGED <<caller, appOptions, audioFiles, audioDir, appFiles, skipTranscription,
                   childRun, focusRun, retval, singleKind, singleResult, pending,
                   fileGroups, pipelineVars>>

\* app.js lines 88-115: the paths, and the question asked when the output
\* directory already holds a transcript for this base name
ProcessAudioFileEntry ==
    /\ appPc = "processAudioFile"
    /\ IF appFiles[<<OUTPUT_DIR, "transcript">>] # "none"
          THEN \E continueExisting \in BOOLEAN : skipTranscription' = continueExisting
          ELSE skipTranscription' = FALSE
    /\ appPc' = (IF skipTranscription' THEN "step2" ELSE "execTranscribe")
    /\ UNCHANGED <<caller, appOptions, audioFiles, fileIdx, successCount, audioDir,
                   appFiles, childRun, focusRun, retval, singleKind, singleResult,
                   pending, fileGroups, pipelineVars>>

\* the ways a run of node transcribeSummarize.js <file> can end: the file is
\* missing (process.exit(1), line 418); main returns { error } after a probe
\* or split failure ("fatal"); main returns without a transcript because no
\* chunk gave text ("empty"); the transcript is written, without or with
\* the summary
TranscribeRuns == {"missing", "fatal", "empty", "transcribed", "summarized"}

\* transcribeSummarize.js lines 416-419 and 559-570: the status of the child
ChildExitStatus(run) == IF run = "missing" THEN 1 ELSE CliExitStatus(FALSE, run)

\* transcribeSummarize.js lines 424-429: where the child puts its files
\* (app.js never passes --force-output)
ChildOutputDir(dir, useOutputDir) == IF useOutputDir THEN OUTPUT_DIR ELSE dir

\* transcribeSummarize.js lines 472-481, 491-498: the files the child writes
ChildWrites(files, run, outputDir) ==
    IF run = "transcribed"
      THEN [files EXCEPT ![<<outputDir, "transcript">>] = "fresh"]
    ELSE IF run = "summarized"
      THEN [files EXCEPT ![<<outputDir, "transcript">>] = "fresh",
                         ![<<outputDir, "summary">>] = "fresh"]
    ELSE files

\* app.js lines 137-141 (transcript) and 143-147 (summary): a file found
\* next to the audio source is copied over the one in the output directory
\* and removed
MoveFile(files, dir, kind) ==
    IF files[<<dir, kind>>] # "none" /\ <<dir, kind>> # <<OUTPUT_DIR, kind>>
      THEN [files EXCEPT ![<<OUTPUT_DIR, kind>>] = files[<<dir, kind>>],
                         ![<<dir, kind>>] = "none"]
      ELSE files

\* app.js lines 132-147
MoveOutputs(files, dir) == MoveFile(MoveFile(files, dir, "transcript"), dir, "summary")

\* app.js lines 117-157: the child command runs; execPromise rejects on a
\* non-zero status, and both ways out of the catch block (return false, or
\* throw into the outer catch of lines 196-199) make processAudioFile
\* return false
ExecTranscribe ==
    /\ appPc = "execTranscribe"
    /\ \E run \in TranscribeRuns :
         LET written == ChildWrites(appFiles, run,
                                    ChildOutputDir(audioDir, appOptions.useOutputDir))
         IN  /\ childRun' = run
             /\ IF ChildExitStatus(run) # 0
                   THEN /\ appFiles' = written
                        /\ retval' = "false"
                        /\ appPc' = "returned"
                   ELSE /\ appFiles' = MoveOutputs(written, audioDir)
                        /\ retval' = retval
                        /\ appPc' = "step2"
    /\ UNCHANGED <<caller, appOptions, audioFiles, fileIdx, successCount, audioDir,
                   skipTranscription, focusRun, singleKind, singleResult, pending,
                   fileGroups, pipelineVars>>

\* app.js lines 159-167 and 195: the second step is entered, refused for
\* want of a transcript, or not asked for
Step2 ==
    /\ appPc = "step2"
    /\ IF appOptions.generateFocusedSummary
          THEN IF appFiles[<<OUTPUT_DIR, "transcript">>] = "none"
                 THEN retval' = "false" /\ appPc' = "returned"
                 ELSE retval' = retval /\ appPc' = "execFocus"
          ELSE retval' = "true" /\ appPc' = "returned"
    /\ UNCHANGED <<caller, appOptions, audioFiles, fileIdx, successCount, audioDir,
                   appFiles, skipTranscription, childRun, focusRun, singleKind,
                   singleResult, pending, fileGroups, pipelineVars>>

\* the ways a run of node summarize_focus.js <transcript> can end: with a
\* non-zero status, or with status 0 without or with the focused summary
FocusRuns == {"failed", "unwritten", "written"}

\* summarize_focus.js lines 121-129, 142-149
FocusWrites(files, run, outputDir) ==
    IF run = "written" THEN [files EXCEPT ![<<outputDir, "focused_summary">>] = "fresh"]
                       ELSE files

\* app.js lines 178-193: the focus command run by processAudioFile on the
\* transcript of the output directory
ExecFocus ==
    /\ appPc = "execFocus"
    /\ \E run \in FocusRuns :
         /\ focusRun' = run
         /\ appFiles' = FocusWrites(appFiles, run, OUTPUT_DIR)
         /\ retval' = (IF run = "failed" THEN "false" ELSE "true")
    /\ appPc' = "returned"
    /\ UNCHANGED <<caller, appOptions, audioFiles, fileIdx, successCount, audioDir,
                   skipTranscription, childRun, singleKind, singleResult, pending,
                   fileGroups, pipelineVars>>

\* app.js lines 440-451, 512, 545-560: processSingleFile looks at the path
ProcessSingleFile ==
    /\ appPc = "single"
    /\ caller = "single"
    /\ IF singleKind = "missing"
          THEN singleResult' = "undefined" /\ appPc' = "singleDone"
       ELSE IF singleKind = "transcript"
          THEN singleResult' = singleResult /\ appPc' = "singleFocus"
       ELSE IF singleKind = "audio"
          THEN singleResult' = singleResult /\ appPc' = "processAudioFile"
       ELSE singleResult' = "false" /\ appPc' = "singleDone"
    /\ UNCHANGED <<caller, appOptions, audioFiles, fileIdx, successCount, audioDir,
                   appFiles, skipTranscription, childRun, focusRun, retval, singleKind,
                   pending, fileGroups, pipelineVars>>

\* app.js lines 495-509: how the try statement around the focus command
\* ends. spinner is declared with const inside the try block (line 497), so
\* the catch block's spinner.fail (line 505) throws a ReferenceError before
\* showError and return false are reached
SingleFocusOutcome(run) == IF run = "failed" THEN "threw" ELSE "true"

\* app.js lines 493-509: the focus command run by processSingleFile on a
\* transcript file
SingleFocus ==
    /\ appPc = "singleFocus"
    /\ \E run \in FocusRuns :
         /\ focusRun' = run
         /\ appFiles' = FocusWrites(appFiles, run,
                                    ChildOutputDir(audioDir, appOptions.useOutputDir))
         /\ singleResult' = SingleFocusOutcome(run)
    /\ appPc' = "singleDone"
    /\ UNCHANGED <<caller, appOptions, audioFiles, fileIdx, successCount, audioDir,
                   skipTranscription, childRun, retval, singleKind, pending,
                   fileGroups, pipelineVars>>

\* app.js lines 545-553: processAudioFile has returned to processSingleFile
SingleReturn ==
    /\ appPc = "returned"
    /\ caller = "single"
    /\ singleResult' = retval
    /\ appPc' = "singleDone"
    /\ UNCHANGED <<caller, appOptions, audioFiles, fileIdx, successCount, audioDir,
                   appFiles, skipTranscription, childRun, focusRun, retval, singleKind,
                   pending, fileGroups, pipelineVars>>

NextApp ==
    \/ BatchNext
    \/ BatchReturn
    \/ ProcessAudioFileEntry
    \/ ExecTranscribe
    \/ Step2
    \/ ExecFocus
    \/ ProcessSingleFile
    \/ SingleFocus
    \/ SingleReturn

SpecApp == InitApp /\ [][NextApp]_vars

\* ----------------------------------------------------- browseOutputFiles
\* file names as sequences of the parts the patterns can tell apart
Bases == {<<"meeting">>, <<"call">>}
TranscriptSuffix == <<"_transcript", ".txt">>
SummarySuffix == <<"_summary", ".txt">>
FocusedSummarySuffix == <<"_focused", "_summary", ".txt">>

\* app.js lines 575-577: the names getOutputFiles lets through
OutputNames ==
    {b \o s : b \in Bases, s \in {TranscriptSuffix, SummarySuffix, FocusedSummarySuffix}}

EndsWith(name, suffix) ==
    /\ Len(name) >= Len(suffix)
    /\ SubSeq(name, Len(name) - Len(suffix) + 1, Len(name)) = suffix

\* name.replace(/<suffix>$/, '')
StripSuffix(name, suffix) ==
    IF EndsWith(name, suffix) THEN SubSeq(name, 1, Len(name) - Len(suffix)) ELSE name

\* app.js lines 822-824: the three replacements, in the order of the source
baseName(name) ==
    StripSuffix(StripSuffix(StripSuffix(name, TranscriptSuffix), SummarySuffix),
                FocusedSummarySuffix)

InitBrowse ==
    /\ PipelineIdle
    /\ appPc = "browse"
    /\ caller = "none"
    /\ appOptions = [generateFocusedSummary |-> FALSE, continueOnError |-> FALSE,
                     useOutputDir |-> FALSE]
    /\ audioFiles = 0
    /\ fileIdx = 0
    /\ successCount = 0
    /\ audioDir = OUTPUT_DIR
    /\ appFiles = NoFiles
    /\ skipTranscription = FALSE
    /\ childRun = "none"
    /\ focusRun = "none"
    /\ retval = "none"
    /\ singleKind = "none"
    /\ singleResult = "none"
    /\ pending \in SUBSET OutputNames
    /\ fileGroups = {}

\* app.js lines 820-830: one pass of files.forEach
GroupFile ==
    /\ appPc = "browse"
    /\ \E name \in pending :
         /\ fileGroups' = fileGroups \cup {<<baseName(name), name>>}
         /\ pending' = pending \ {name}
    /\ UNCHANGED <<appPc, caller, appOptions, audioFiles, fileIdx, successCount, audioDir,
                   appFiles, skipTranscription, childRun, focusRun, retval, singleKind,
                   singleResult, pipelineVars>>

\* app.js lines 833-834: the keys of fileGroups are read
GroupsDone ==
    /\ appPc = "browse"
    /\ pending = {}
    /\ appPc' = "browsed"
    /\ UNCHANGED <<caller, appOptions, audioFiles, fileIdx, successCount, audioDir,
                   appFiles, skipTranscription, childRun, focusRun, retval, singleKind,
                   singleResult, pending, fileGroups, pipelineVars>>

NextBrowse == GroupFile \/ GroupsDone

SpecBrowse == InitBrowse /\ [][NextBrowse]_vars

\* ------------------------------------------------------------------ claims
Range(seq) == {seq[k] : k \in 1..Len(seq)}

\* the split returned a chunk list to main
SplitSucceeded == Len(chunkResult) > 0

\* the transcription loop of main is over and the transcript was saved or not
LoopOver == SplitSucceeded /\ pc \in {"summarize", "awaitSummarize", "return", "finally", "done"}

\* C1: whenever splitAudio has returned a non-empty chunk list for a source
\* of duration D > 0, the accepted spans start at 0, each starts where the
\* previous one ends, the last ends at D, every span has positive length,
\* and the k-th chunk is the file temp_chunk_k, whatever oversize retries
\* preceded each acceptance.
C1_SpansTileSource ==
    (SplitSucceeded /\ totalDuration > 0) =>
        /\ Len(spans) = Len(chunkResult)
        /\ spans[1].start = 0
        /\ spans[Len(spans)].end = totalDuration
        /\ \A k \in 1..Len(spans) :
             /\ spans[k].end > spans[k].start
             /\ chunkResult[k] = ChunkName(k - 1)
             /\ spans[k].name = chunkResult[k]
        /\ \A k \in 1..(Len(spans) - 1) : spans[k + 1].start = spans[k].end

\* three chunks cut from the short source, which takes oversize retries
C1_Witness ==
    /\ SplitSucceeded
    /\ totalDuration = Sec(MaxShortSeconds)
    /\ Len(chunkResult) = 3
    /\ spans[1].end - spans[1].start = Sec(2)

\* C2: every chunk pushed to the result list had a size strictly below
\* MAX_FILE_SIZE_BYTES when it was inspected, and so has every chunk for
\* which transcribeChunk is called.
C2_AcceptedBelowLimit ==
    /\ \A k \in 1..Len(spans) : spans[k].size < MAX_FILE_SIZE_BYTES
    /\ Len(chunks) <= Len(spans)
    /\ \A k \in 1..Len(issued) :
         /\ issued[k] + 1 <= Len(spans)
         /\ spans[issued[k] + 1].name = chunkResult[issued[k] + 1]
         /\ spans[issued[k] + 1].size < MAX_FILE_SIZE_BYTES

\* a chunk accepted after an oversize slice was rejected is being transcribed
C2_Witness ==
    /\ totalDuration = Sec(1500)
    /\ oversizeLeft < MaxOversizeLong
    /\ outstanding # {}

\* the text main is to build from the values transcribeChunk returned
RECURSIVE JoinedInOrder(_)
JoinedInOrder(rs) ==
    IF rs = <<>> THEN <<>>
    ELSE LET front == SubSeq(rs, 1, Len(rs) - 1)
             last == rs[Len(rs)]
         IN  JoinedInOrder(front) \o (IF last = NULL THEN <<>> ELSE last \o <<10, 10>>)

\* C3: the transcript main builds is the concatenation, in ascending chunk
\* index, of text_i followed by two line breaks over exactly the chunks
\* whose transcribeChunk call returned a text; a failed chunk adds nothing.
C3_TranscriptInOrder ==
    /\ \A k \in 1..Len(results) : k <= Len(issued) /\ issued[k] = k - 1
    /\ fullTranscript = JoinedInOrder(results)
    /\ LoopOver => Len(results) = Len(chunkResult)

\* chunk 2 of 3 failed, chunks 1 and 3 gave text
C3_Witness ==
    /\ pc = "done"
    /\ Len(results) = 3
    /\ results[1] = <<97>>
    /\ results[2] = NULL
    /\ results[3] = <<99>>

\* C4: main never has two transcribeChunk calls outstanding; the call for
\* chunk i+1 is issued only after the call for chunk i returned, and calls
\* are issued in ascending index order.
C4_OneCallAtATime ==
    /\ Cardinality(outstanding) <= 1
    /\ \A k \in 1..Len(issued) : issued[k] = k - 1
    /\ IF outstanding = {}
         THEN Len(results) = Len(issued)
         ELSE Len(results) = Len(issued) - 1 /\ outstanding = {issued[Len(issued)]}

\* the third call is outstanding, after one call failed and one succeeded
C4_Witness ==
    /\ outstanding = {2}
    /\ Len(results) = 2
    /\ results[1] = NULL
    /\ results[2] # NULL

\* C5: when the temporary directory was created, cleanupTempDir is called
\* exactly once before main's promise settles, on every path, if and only if
\* keepTempFiles is false; with keepTempFiles true the directory and every
\* accepted chunk file stay.
C5_CleanupOnceUnlessKept ==
    /\ pc # "done" => cleanupCalls = 0
    /\ (pc = "done" /\ tempDir # NoDir) =>
          cleanupCalls = (IF options.keepTempFiles THEN 0 ELSE 1)
    /\ (pc = "done" /\ tempDir # NoDir /\ options.keepTempFiles) =>
          /\ dirExists
          /\ \A k \in 1..Len(spans) : spans[k].name \in dirFiles

\* the unexpected exception path: the split threw, and cleanup still ran
C5_Witness ==
    /\ pc = "done"
    /\ ~hasExtension
    /\ result.error
    /\ tempDir # NoDir
    /\ ~options.keepTempFiles
    /\ cleanupCalls = 1

\* C6: after a run with keepTempFiles false has ended, no chunk file the run
\* created is left and the scratch directory is gone, also when the split
\* aborted after chunks had been accepted (stated for runs in which no file
\* system call failed on an existing file and no stray file was dropped).
C6_NothingLeftBehind ==
    (pc = "done" /\ tempDir # NoDir /\ ~options.keepTempFiles /\ ~envFault) =>
        /\ ~dirExists
        /\ dirFiles = {}

\* C7: cleanupTempDir never deletes a file whose path is not in the chunk
\* list it was given, also when another actor put that file into the
\* scratch directory.
C7_DeletesOnlyListed ==
    /\ cleanupDeleted \subseteq Range(cleanupGiven)
    /\ cleanupDeleted \cap StrayNames = {}

\* cleanup removed listed chunks while a stray file was in the directory
C7_Witness ==
    /\ pc = "done"
    /\ cleanupDeleted # {}
    /\ dirFiles \cap StrayNames # {}

\* C8: cleanupTempDir never throws, whatever the state of the directory, and
\* a call made when the directory is absent changes nothing on disk.
C8_CleanupIdempotent ==
    /\ [](pc # "rejected")
    /\ [][(pc = "cleanup" /\ ~dirExists /\ cleanupCalls' = cleanupCalls + 1) =>
            (dirExists' = dirExists /\ dirFiles' = dirFiles /\ cleanupDeleted' = cleanupDeleted)]_vars

\* a second call after the first one, without any fault, removed the listed
\* files and the directory
C8_Witness ==
    /\ pc = "cleanup"
    /\ cleanupCalls = 2
    /\ ~envFault
    /\ cleanupDeleted # {}
    /\ ~dirExists

\* C9: for a split that produced N chunks main calls transcribeChunk exactly
\* once for each chunk 0..N-1; a null result never makes main return an
\* error and never makes it skip a later chunk.
C9_EveryChunkTranscribed ==
    /\ SplitSucceeded => pc # "catch" /\ ~result.error
    /\ LoopOver =>
          /\ Len(issued) = Len(chunkResult)
          /\ \A k \in 1..Len(issued) : issued[k] = k - 1
          /\ Len(results) = Len(chunkResult)

\* the first of three chunks failed and the run ended normally
C9_Witness ==
    /\ pc = "done"
    /\ Len(chunkResult) = 3
    /\ results[1] = NULL
    /\ results[2] = NULL
    /\ Len(issued) = 3

\* C10 as claimed: if at least one transcribeChunk call returned a text,
\* possibly the empty one, main attempts to write the transcript file.
C10_WriteWheneverOneSucceeded ==
    (LoopOver /\ successfulTranscriptions >= 1) => writeAttempts >= 1

\* C10 as amended: main attempts to write the transcript file, once, exactly
\* when some chunk's call returned a text that holds a character other than
\* white space.
C10_WriteWhenSomeTextIsNotBlank ==
    LoopOver =>
        /\ writeAttempts = (IF \E k \in 1..Len(results) :
                                 results[k] # NULL /\ Trim(results[k]) # <<>>
                            THEN 1 ELSE 0)
        /\ successfulTranscriptions = Cardinality({k \in 1..Len(results) : results[k] # NULL})

\* one chunk gave an empty text, one failed, one gave text: the file is written
C10_Witness ==
    /\ pc = "done"
    /\ Len(results) = 3
    /\ results[1] = <<>>
    /\ results[2] = NULL
    /\ results[3] = <<99>>
    /\ writeAttempts = 1

\* every transcribeChunk call of the finished loop returned null
AllFailed == LoopOver /\ \A k \in 1..Len(results) : results[k] = NULL

\* C11: if every chunk's transcription fails, main does not write the
\* transcript file and never calls summarizeText.
C11_AllFailedNoWriteNoSummary ==
    AllFailed =>
        /\ writeAttempts = 0
        /\ outTranscript \in {NULL, OldTranscript}
        /\ summarizeCalls = 0
        /\ pc # "awaitSummarize"

\* three chunks, all failed, in a run that asked for a summary
C11_Witness ==
    /\ pc = "done"
    /\ AllFailed
    /\ Len(results) = 3
    /\ ~options.skipSummary

\* C12: if every chunk's transcription fails, the result main returns has
\* no transcriptPath, whatever file was at the transcript's place before the
\* run.
C12_AllFailedNoTranscriptPath ==
    (AllFailed /\ result.returned) => ~result.transcriptPath

\* the chunks of the finished loop whose transcribeChunk call returned null
FailedChunks == {k \in 1..Len(results) : results[k] = NULL}

\* the failureCount property of the object main returned, -1 for undefined
ReportedFailureCount ==
    IF "failureCount" \in DOMAIN result THEN result.failureCount ELSE -1

\* C13 as claimed: the result main returns reports a failure count equal to
\* the number of chunks whose transcription did not succeed.
C13_ResultReportsFailureCount ==
    (LoopOver /\ result.returned) => ReportedFailureCount = Cardinality(FailedChunks)

\* C13 as amended: the number of chunks whose transcription did not succeed
\* (N minus the successful ones) is what main logs when the loop is over;
\* the object it returns holds the two paths or an error and no count.
C13_LogReportsFailureCount ==
    /\ LoopOver =>
          /\ loggedFailed = Cardinality(FailedChunks)
          /\ loggedFailed = Len(chunkResult) - successfulTranscriptions
    /\ ~LoopOver => loggedFailed = -1
    /\ DOMAIN result = {"returned", "error", "transcriptPath", "summaryPath"}

\* chunk 2 of 3 failed and the logged count is 1
C13_Witness ==
    /\ result.returned
    /\ Len(results) = 3
    /\ FailedChunks = {2}
    /\ loggedFailed = 1

\* main is past the decision of line 484
SummaryDecided == LoopOver /\ pc # "summarize"

\* C14: main calls summarizeText (once) if and only if the assembled
\* transcript is not empty after trimming, at least one chunk succeeded and
\* skipSummary is false; failed chunks and a failed write of the transcript
\* file do not prevent the call.
C14_SummarizeIffTextAndNotSkipped ==
    /\ ~SummaryDecided => summarizeCalls = 0
    /\ SummaryDecided =>
          summarizeCalls = (IF /\ Trim(JoinedInOrder(results)) # <<>>
                               /\ \E k \in 1..Len(results) : results[k] # NULL
                               /\ ~options.skipSummary
                            THEN 1 ELSE 0)

\* summarizeText was called although a chunk failed and the write of the
\* transcript file threw
C14_Witness ==
    /\ summarizeCalls = 1
    /\ Len(results) = 3
    /\ FailedChunks = {1}
    /\ writeAttempts = 1
    /\ outTranscript # fullTranscript

\* summarizeText was called and returned null
SummaryCameBackNull ==
    summarizeCalls = 1 /\ pc \in {"return", "finally", "done"} /\ summary = NULL

\* C15: when summarizeText returns null main does not write a summary file,
\* the transcript file stays as it was saved, and the result main returns
\* has no error.
C15_NullSummaryIsNotFatal ==
    /\ [](SummaryCameBackNull =>
            /\ summaryWrites = 0
            /\ outSummary = NULL
            /\ pc # "catch"
            /\ ~result.error
            /\ (result.returned =>
                  (~result.summaryPath /\ result.transcriptPath = (outTranscript # NULL))))
    /\ [][(pc \in {"summarize", "awaitSummarize", "return", "finally"}) =>
            (outTranscript' = outTranscript)]_vars

\* the transcript was written, summarizeText returned null, the run ended
C15_Witness ==
    /\ pc = "done"
    /\ SummaryCameBackNull
    /\ writeAttempts = 1
    /\ outTranscript = fullTranscript
    /\ result.transcriptPath

\* the duration probe failed, or splitAudio threw, aborted or returned no
\* chunk
ProbeOrSplitFailed ==
    \/ abortCause \in {"probe", "extension", "ffmpeg", "stat", "floor"}
    \/ abortCause = "none" /\ totalDuration = 0 /\ tempDir # NoDir

\* C16 as claimed: main returns a result carrying an error only when the
\* duration probe or the split failed.
C16_ErrorOnlyFromProbeOrSplit ==
    result.error => ProbeOrSplitFailed

\* C16 as amended: main returns a result carrying an error only when
\* createTempDir threw, the duration probe failed or the split failed, all
\* of which happen before the first transcribeChunk call; once a chunk list
\* came back, no outcome of transcribeChunk, of the two file writes or of
\* summarizeText leads to the catch block.
C16_ErrorOnlyBeforeTranscription ==
    /\ (pc = "catch" \/ result.error) =>
          /\ abortCause = "mkdtemp" \/ ProbeOrSplitFailed
          /\ chunkResult = <<>>
          /\ issued = <<>>
          /\ writeAttempts = 0
          /\ summarizeCalls = 0
          /\ summaryWrites = 0
    /\ SplitSucceeded => (pc # "catch" /\ ~result.error)

\* the scratch directory could not be created and main returned an error
C16_Witness ==
    /\ pc = "done"
    /\ result.error
    /\ abortCause = "mkdtemp"
    /\ tempDir = NoDir

\* the phase main is in: 0 start, 1 probe, 2 split, 3 transcribe, 4 transcript
\* assembled and persisted, 5 summarize, 6 result built, 7 cleanup, 8 done
Phase ==
    CASE pc \in {"main", "createTempDir"} -> 0
      [] pc = "probe" -> 1
      [] pc \in {"extension", "outer", "inner", "ffmpeg", "afterInner", "splitReturned"} -> 2
      [] pc \in {"transcribe", "awaitTranscribe", "delay"} -> 3
      [] pc = "summarize" -> 4
      [] pc = "awaitSummarize" -> 5
      [] pc \in {"return", "catch"} -> 6
      [] pc \in {"finally", "cleanup"} -> 7
      [] OTHER -> 8

\* C17: within one run main goes through probe, split, transcribe,
\* assemble/persist, summarize (optional), cleanup, done in this order and
\* never back: transcribeChunk is called only once the split has returned
\* its whole chunk list, summarizeText only once the last transcribeChunk
\* call has returned, and the write, the summary and the cleanup happen at
\* most once.
C17_PhasesInOrder ==
    /\ [][Phase' >= Phase]_vars
    /\ [][(issued # <<>>) => (chunkResult' = chunkResult)]_vars
    /\ [](issued # <<>> => (Phase >= 3 /\ SplitSucceeded /\ chunks = <<>>))
    /\ [](writeAttempts > 0 => (Phase >= 4 /\ writeAttempts = 1))
    /\ [](summarizeCalls > 0 =>
            /\ Phase >= 5
            /\ summarizeCalls = 1
            /\ outstanding = {}
            /\ Len(issued) = Len(chunkResult)
            /\ Len(results) = Len(chunkResult))
    /\ [](cleanupCalls > 0 => (Phase = 8 /\ cleanupCalls = 1 /\ result.returned))

\* a run that went through every phase: three chunks, two delays, a
\* transcript, a summary, the cleanup
C17_Witness ==
    /\ pc = "done"
    /\ Len(results) = 3
    /\ delays = 2
    /\ writeAttempts = 1
    /\ summaryWrites = 1
    /\ cleanupCalls = 1

\* C18 as claimed: the first slice attempt for the next chunk uses the
\* length the previous chunk was accepted at; the length is not reset at a
\* chunk boundary.
C18_ShrunkLengthCarriedOver ==
    [][(pc = "outer" /\ pc' = "inner" /\ i > 0) =>
          (currentChunkLength' = currentChunkLength)]_vars

\* C18 as amended: the first slice attempt for every chunk uses the target
\* chunk length; a length shrunk for one chunk is not carried over to the
\* next.
C18_LengthResetAtChunkBoundary ==
    [][(pc = "outer" /\ pc' = "inner") =>
          (currentChunkLength' = CHUNK_LENGTH_SECONDS)]_vars

\* the first chunk was accepted at 2 seconds, after many reductions, and
\* the second chunk is being attempted at the full length
C18_Witness ==
    /\ pc = "ffmpeg"
    /\ i = 1
    /\ totalDuration = Sec(MaxShortSeconds)
    /\ Len(spans) = 1
    /\ spans[1].end - spans[1].start = Sec(2)
    /\ currentChunkLength = CHUNK_LENGTH_SECONDS

\* the attempt loop ended by an accepted slice whose size is under the limit
EndedByAcceptance ==
    /\ chunkExported'
    /\ ~chunkFailed'
    /\ Len(spans') = Len(spans) + 1
    /\ spans'[Len(spans')].size < MAX_FILE_SIZE_BYTES

\* the attempt loop ended by the abort at the 1-second floor
EndedAtFloor ==
    /\ chunkFailed'
    /\ abortCause' = "floor"
    /\ currentChunkLength' <= 1

\* C19 as claimed: each oversize result strictly decreases
\* currentChunkLength, and the retries for a chunk end only by accepting a
\* slice under the limit or by aborting once the length reached the floor.
C19_RetriesEndByAcceptOrFloor ==
    /\ [][(pc = "ffmpeg" /\ pc' = "inner") =>
            (currentChunkLength' < currentChunkLength)]_vars
    /\ [][(pc = "ffmpeg" /\ pc' = "afterInner") =>
            (EndedByAcceptance \/ EndedAtFloor)]_vars

\* C19 as amended: while one chunk is retried the start offset and the
\* chunk index stay, each oversize result strictly decreases
\* currentChunkLength and nothing else changes it, and the retries end only
\* by accepting a slice under the limit, by aborting once the reduced length
\* is at most 1 second, or by aborting on an error of the slicing call or of
\* the size inspection.
C19_RetriesShrinkUntilAcceptOrAbort ==
    /\ [][(pc = "ffmpeg" /\ pc' = "inner") =>
            (/\ currentChunkLength' < currentChunkLength
             /\ currentChunkLength' > 1
             /\ startOffset' = startOffset
             /\ i' = i
             /\ ~chunkExported')]_vars
    /\ [][(pc = "ffmpeg") => (currentChunkLength' <= currentChunkLength)]_vars
    /\ [][(pc = "ffmpeg" /\ pc' = "afterInner") =>
            (\/ EndedByAcceptance /\ currentChunkLength' = currentChunkLength
             \/ EndedAtFloor /\ currentChunkLength' < currentChunkLength
             \/ /\ chunkFailed'
                /\ abortCause' \in {"ffmpeg", "stat"}
                /\ currentChunkLength' = currentChunkLength)]_vars

\* the second chunk is attempted again after one oversize slice
C19_Witness ==
    /\ pc = "ffmpeg"
    /\ i = 1
    /\ startOffset = Sec(2)
    /\ currentChunkLength = Reduced(CHUNK_LENGTH_SECONDS)

\* splitAudio has returned to main or thrown
SplitOver == pc \in {"splitReturned", "catch"}

\* C20: splitAudio terminates for every duration of the source and every
\* sequence of slice outcomes, every slicing call settling; the outer loop
\* goes on while startOffset < totalDuration, and the split ends exactly
\* when startOffset >= totalDuration, with the chunks, or when it aborts.
C20_SplitTerminates ==
    /\ <>SplitOver
    /\ [][(pc = "outer") =>
            (pc' = (IF startOffset < totalDuration THEN "inner" ELSE "splitReturned"))]_vars
    /\ [][(~SplitOver /\ SplitOver') =>
            (\/ /\ pc = "outer"
                /\ startOffset >= totalDuration
                /\ abortCause' = "none"
                /\ chunkResult' = chunks
             \/ /\ abortCause' # "none"
                /\ chunkResult' = <<>>)]_vars

\* the long source was cut in three chunks, after an oversize slice
C20_Witness ==
    /\ SplitOver
    /\ totalDuration = Sec(1500)
    /\ oversizeLeft < MaxOversizeLong
    /\ Len(chunkResult) = 3
    /\ abortCause = "none"

\* C21: once an oversize result has reduced currentChunkLength to 1 second
\* or less, splitAudio makes no further slice attempt and returns no chunks,
\* and main ends with an error result and writes no transcript.
C21_FloorAbortsTheRun ==
    /\ (pc \in {"inner", "ffmpeg", "afterInner"} /\ currentChunkLength <= 1) =>
          (chunkFailed /\ abortCause = "floor")
    /\ abortCause = "floor" =>
          /\ pc \in {"afterInner", "splitReturned", "catch", "finally", "done"}
          /\ pc # "afterInner" => chunkResult = <<>>
          /\ issued = <<>>
          /\ writeAttempts = 0
          /\ outTranscript \in {NULL, OldTranscript}
          /\ pc = "done" => (result.returned /\ result.error)

\* the floor was hit on the second chunk and main returned an error
C21_Witness ==
    /\ pc = "done"
    /\ abortCause = "floor"
    /\ Len(spans) = 1
    /\ result.error

\* C22: when the slicing call reports an error, splitAudio deletes the
\* partial output file if there is one (unless the unlink itself fails),
\* makes no further slice attempt and returns an empty chunk list.
C22_SliceErrorAbortsSplit ==
    abortCause = "ffmpeg" =>
        /\ pc \in {"afterInner", "splitReturned", "catch", "finally", "done"}
        /\ pc = "afterInner" => chunkFailed
        /\ pc # "afterInner" => chunkResult = <<>>
        /\ issued = <<>>
        /\ ~envFault => ChunkName(Len(spans)) \notin dirFiles

\* the slicing of the second chunk failed, no file system call failed, and
\* main is about to get the empty list
C22_Witness ==
    /\ pc = "splitReturned"
    /\ abortCause = "ffmpeg"
    /\ ~envFault
    /\ Len(spans) = 1
    /\ chunkResult = <<>>

\* C23 as claimed: a slicing failure for a chunk attempt is followed by
\* another attempt for the same chunk; the first failure does not abort.
C23_SliceErrorRetried ==
    [][(pc = "ffmpeg" /\ abortCause' = "ffmpeg" /\ currentChunkLength > 1) =>
          (pc' = "inner" /\ ~chunkFailed')]_vars

\* C23 as amended: a slicing failure is never retried: the first one ends
\* the attempt loop with the failure flag set and the length as it was, and
\* only an oversize result leads to another attempt for the same chunk.
C23_SliceErrorNotRetried ==
    /\ [][(pc = "ffmpeg" /\ abortCause' = "ffmpeg") =>
            (/\ pc' = "afterInner"
             /\ chunkFailed'
             /\ abortCause = "none"
             /\ currentChunkLength' = currentChunkLength)]_vars
    /\ [][(pc = "ffmpeg" /\ pc' = "inner") =>
            (/\ abortCause' = "none"
             /\ oversizeSeen'
             /\ currentChunkLength' = Reduced(currentChunkLength))]_vars

\* the slicing call failed on the attempt that followed an oversize slice
C23_Witness ==
    /\ pc = "afterInner"
    /\ abortCause = "ffmpeg"
    /\ chunkFailed
    /\ currentChunkLength = Reduced(CHUNK_LENGTH_SECONDS)

\* the least number of spans of length t that cover d
CeilDiv(d, t) == (d + t - 1) \div t

\* C24: when every slice comes out under the size limit, splitAudio
\* produces exactly ceil(D / T) chunks for duration D and target length T,
\* chunk k spanning [k*T, min((k+1)*T, D)); for D = 1500 s and T = 600 s
\* these are [0,600), [600,1200), [1200,1500).
C24_ChunksOfTargetLength ==
    (SplitSucceeded /\ ~oversizeSeen) =>
        /\ Len(chunkResult) = CeilDiv(totalDuration, Sec(CHUNK_LENGTH_SECONDS))
        /\ Len(spans) = Len(chunkResult)
        /\ \A k \in 1..Len(spans) :
             /\ spans[k].start = (k - 1) * Sec(CHUNK_LENGTH_SECONDS)
             /\ spans[k].end = Min(k * Sec(CHUNK_LENGTH_SECONDS), totalDuration)
        /\ totalDuration = Sec(1500) =>
             /\ Len(spans) = 3
             /\ <<spans[1].start, spans[1].end>> = <<Sec(0), Sec(600)>>
             /\ <<spans[2].start, spans[2].end>> = <<Sec(600), Sec(1200)>>
             /\ <<spans[3].start, spans[3].end>> = <<Sec(1200), Sec(1500)>>

\* the 1500 s source was cut without any oversize slice
C24_Witness ==
    /\ SplitSucceeded
    /\ ~oversizeSeen
    /\ totalDuration = Sec(1500)
    /\ pc = "transcribe"
    /\ idx = 0

\* C25: when the duration probe fails, no slice is attempted, neither
\* transcribeChunk nor summarizeText is called, no transcript or summary
\* file is written, and main returns an error result.
C25_ProbeFailureStopsTheRun ==
    abortCause = "probe" =>
        /\ pc \in {"splitReturned", "catch", "finally", "done"}
        /\ chunkResult = <<>>
        /\ spans = <<>>
        /\ ~oversizeSeen
        /\ dirFiles \subseteq StrayNames
        /\ issued = <<>>
        /\ summarizeCalls = 0
        /\ writeAttempts = 0
        /\ summaryWrites = 0
        /\ outTranscript \in {NULL, OldTranscript}
        /\ outSummary = NULL
        /\ pc = "done" => (result.returned /\ result.error)

\* the probe failed and main returned an error after the cleanup
C25_Witness ==
    /\ pc = "done"
    /\ abortCause = "probe"
    /\ result.error
    /\ cleanupCalls = 1

\* C26: transcribeChunk never throws to main: a transcript with status
\* 'completed' gives its text, status 'error' gives null, any other status
\* gives null, and an exception of the backend call gives null.
C26_TranscribeChunkReturnsTextOrNull ==
    /\ backend # NoOutcome =>
          /\ pc \in {"transcribe", "delay"}
          /\ results # <<>>
          /\ results[Len(results)] =
                (IF ~backend.threw /\ backend.status = "completed"
                   THEN backend.text ELSE NULL)
    /\ issued # <<>> => (pc # "catch" /\ ~result.error)

\* the backend call for the second chunk threw and the loop went on to the
\* pacing delay
C26_Witness ==
    /\ backend.threw
    /\ pc = "delay"
    /\ idx = 1
    /\ results[2] = NULL

\* fs.writeFileSync threw for the transcript, for the summary
TranscriptWriteFailed == writeAttempts = 1 /\ outTranscript # fullTranscript
SummaryWriteFailed == summaryWrites = 1 /\ outSummary # summary

\* C27: a failed write of the transcript or of the summary file does not
\* abort the run: summarization follows a failed transcript write, the
\* cleanup follows either, and main returns a result without an error.
C27_WriteFailureIsNotFatal ==
    /\ (TranscriptWriteFailed \/ SummaryWriteFailed) =>
          /\ pc \in {"summarize", "awaitSummarize", "return", "finally", "done"}
          /\ ~result.error
          /\ pc = "done" =>
                /\ result.returned
                /\ cleanupCalls = (IF options.keepTempFiles THEN 0 ELSE 1)
    /\ (TranscriptWriteFailed /\ ~options.skipSummary /\ pc \in {"return", "finally", "done"}) =>
          summarizeCalls = 1

\* both writes failed; the summary was asked for, the cleanup ran and main
\* returned the two paths
C27_Witness ==
    /\ pc = "done"
    /\ TranscriptWriteFailed
    /\ SummaryWriteFailed
    /\ summarizeCalls = 1
    /\ cleanupCalls = 1
    /\ result.returned
    /\ ~result.error

\* C28: with delayBetweenChunks set main waits exactly N-1 times for N
\* chunks: once after each chunk's transcribeChunk call has returned,
\* whatever it returned, before the next call is issued, and not after the
\* last chunk; without the option it never waits.
C28_DelaysBetweenChunks ==
    /\ ~options.delayBetweenChunks => delays = 0
    /\ options.delayBetweenChunks =>
          /\ pc = "awaitTranscribe" => delays = idx
          /\ pc = "delay" =>
                /\ delays = idx
                /\ outstanding = {}
                /\ Len(results) = idx + 1
                /\ idx < Len(chunkResult) - 1
          /\ LoopOver => delays = Len(chunkResult) - 1

\* three chunks, the first two failed, two waits
C28_Witness ==
    /\ pc = "done"
    /\ options.delayBetweenChunks
    /\ Len(results) = 3
    /\ FailedChunks = {1, 2}
    /\ delays = 2

\* C29: the command exits with a non-zero status whenever the run fails
\* fatally, that is whenever the probe or the split failed and main's result
\* carries an error.
C29_FatalFailureExitsNonZero ==
    (exitCode # -1 /\ result.error /\ abortCause \in {"probe", "ffmpeg", "stat", "floor"}) =>
        exitCode # 0

\* C30 as claimed: after an oversize slice the next attempt uses exactly 0.9
\* times the previous length.
C30_ExactlyNineTenths ==
    [][(pc = "ffmpeg" /\ pc' = "inner") =>
          (10 * currentChunkLength' = 9 * currentChunkLength)]_vars

\* C30 as amended: after an oversize slice the next attempt uses 0.9 times
\* the previous length rounded down to a whole number of seconds.
C30_FloorOfNineTenths ==
    [][(pc = "ffmpeg" /\ currentChunkLength' # currentChunkLength) =>
          (/\ 10 * currentChunkLength' <= 9 * currentChunkLength
           /\ 9 * currentChunkLength < 10 * (currentChunkLength' + 1))]_vars

\* the fourth attempt for the first chunk, at 437 s: 0.9 * 486 = 437.4
C30_Witness ==
    /\ pc = "ffmpeg"
    /\ i = 0
    /\ currentChunkLength = 437
    /\ oversizeSeen

\* C31: cleanupTempDir, called by main, deletes every tracked chunk file of
\* the scratch directory whose own unlink does not fail, also when the
\* directory holds unexpected files or another unlink fails; unexpected
\* files stay, the directory is removed only if it ends up empty, and no
\* failure inside cleanup changes what main returns.
C31_CleanupDeletesTrackedOnly ==
    [][(pc = "finally" /\ cleanupCalls' = cleanupCalls + 1) =>
          (LET tracked == dirFiles \cap Range(chunkResult)
           IN  /\ result' = result
               /\ pc' = "done"
               /\ ~readdirThrew' =>
                     \A f \in tracked \ unlinkThrew' :
                        f \notin dirFiles' /\ f \in cleanupDeleted'
               /\ (dirFiles \ tracked) \subseteq dirFiles'
               /\ dirFiles' # {} => dirExists'
               /\ (dirFiles' = {} /\ ~envFault') => ~dirExists')]_vars

\* one tracked chunk could not be unlinked, another was deleted, and a stray
\* file is still there with the directory
C31_Witness ==
    /\ pc = "done"
    /\ unlinkThrew # {}
    /\ cleanupDeleted # {}
    /\ dirFiles \cap StrayNames # {}
    /\ dirExists
    /\ result.returned
    /\ ~result.error

\* C32: when the source path has no extension, splitAudio goes on to the
\* split loop (with 'mp3' as the chunk extension) instead of failing the run.
C32_NoExtensionAssumesMp3 ==
    [][(pc = "extension" /\ ~hasExtension /\ pc' # "extension") =>
          (pc' = "outer" /\ abortCause' = abortCause)]_vars

\* C33: the size-adjustment loop is never left with neither chunkExported
\* nor chunkFailed set, and no attempt is planned with a non-positive span.
C33_InnerLoopEndsByAcceptOrFailure ==
    /\ pc = "afterInner" => (chunkFailed \/ chunkExported)
    /\ (pc = "inner" /\ ~chunkExported /\ currentChunkLength > 1) =>
          EndOffset(startOffset, currentChunkLength) - startOffset > 0
    /\ (pc = "inner" /\ ~chunkExported /\ ~chunkFailed) => currentChunkLength > 1

\* the last chunk of a positive-length source was accepted after a retry:
\* startOffset has reached totalDuration and the outer loop will stop
C33_Witness ==
    /\ pc = "afterInner"
    /\ chunkExported
    /\ ~chunkFailed
    /\ totalDuration > 0
    /\ startOffset = totalDuration
    /\ currentChunkLength < CHUNK_LENGTH_SECONDS

\* C34: every chunk file the split accepted stays in the scratch directory
\* until cleanup runs, and cleanup runs only once every transcribeChunk call
\* has returned and the summarization step is over.
C34_ChunksOutliveTranscription ==
    /\ (SplitSucceeded /\ cleanupCalls = 0) => Range(chunkResult) \subseteq dirFiles
    /\ (pc = "awaitTranscribe") => chunkResult[idx + 1] \in dirFiles
    /\ cleanupCalls > 0 =>
          /\ pc = "done"
          /\ outstanding = {}
          /\ SplitSucceeded => Len(results) = Len(chunkResult)
    /\ cleanupDeleted \subseteq Range(cleanupGiven)

\* two chunks were transcribed, the summary was asked for, and only then
\* were both chunk files deleted by cleanup
C34_Witness ==
    /\ pc = "done"
    /\ Len(chunkResult) = 2
    /\ Len(results) = 2
    /\ summarizeCalls = 1
    /\ cleanupCalls = 1
    /\ cleanupDeleted = Range(chunkResult)

\* C35: a summary file is written only when the summarization backend
\* returned a non-empty text block; a response with no content or with no
\* text block leaves the summary file unwritten.
C35_SummaryFileOnlyForText ==
    /\ summaryWrites > 0 => summary = SummaryText
    /\ outSummary \notin {NoContentMessage, NoTextBlocksMessage}

\* C38: a call of cleanupTempDir on a directory whose base name does not
\* start with audio_chunks_ deletes no file and leaves the directory in
\* place, even when the chunk list names files inside that directory.
C38_ForeignDirectoryUntouched ==
    [][(~StartsWithPrefix(tempDir) /\ cleanupCalls' = cleanupCalls + 1) =>
          (/\ dirExists' = dirExists
           /\ dirFiles' = dirFiles
           /\ cleanupDeleted' = cleanupDeleted
           /\ unlinkThrew' = unlinkThrew
           /\ pc' = pc)]_vars

\* cleanupTempDir was called on an existing directory without the prefix,
\* with a chunk list naming a file inside it, and the file is still there
C38_Witness ==
    /\ ~StartsWithPrefix(tempDir)
    /\ cleanupCalls > 0
    /\ dirExists
    /\ Range(chunkResult) \cap dirFiles # {}
    /\ cleanupGiven = chunkResult
    /\ cleanupDeleted = {}

\* C36: processAudioFile returns true only if the output directory holds a
\* transcript for the file when it returns, and a file whose transcription
\* run ended in a fatal error is not counted in the batch total.
C36_SuccessMeansTranscript ==
    [][/\ (appPc = "returned" /\ retval = "true") =>
              (appFiles[<<OUTPUT_DIR, "transcript">>] # "none")
       /\ (successCount' = successCount + 1) => (childRun # "fatal")]_vars

\* C37: once processAudioFile has run the transcription step with
\* useOutputDir set and the run wrote a transcript, the transcript of the
\* output directory is the one that run wrote.
C37_OutputTranscriptIsFresh ==
    (/\ appPc \in {"step2", "execFocus", "returned"}
     /\ appOptions.useOutputDir
     /\ childRun \in {"transcribed", "summarized"}) =>
        appFiles[<<OUTPUT_DIR, "transcript">>] = "fresh"

\* C39: when the focus command fails for a transcript file,
\* processSingleFile ends by returning false, not by throwing.
C39_FailedFocusReturnsFalse ==
    (appPc = "singleDone" /\ singleKind = "transcript" /\ focusRun = "failed") =>
        singleResult = "false"

\* C40: the transcript, the summary and the focused summary of one base
\* name are put under one group key, the base name itself.
C40_OneGroupPerBaseName ==
    \A b \in Bases :
       \A g \in fileGroups :
          (g[2] \in {b \o TranscriptSuffix, b \o SummarySuffix, b \o FocusedSummarySuffix})
             => (g[1] = b)

====
